---- MODULE Spec2Model ----
(***************************************************************************)
(* Model of the bug-exorcist verification loop:                            *)
(*   - core/agent.py         BugExorcistAgent (attempt loop, analyze_error, *)
(*                           verify_fix, the silent and observed entries)  *)
(*   - backend/app/sandbox.py  Sandbox (network, sidecars, build_image,    *)
(*                           run_code, cleanup_sidecars)                   *)
(*   - backend/app/sandbox_utils.py  generate_dynamic_dockerfile           *)
(*                                                                         *)
(* Text is modelled as a sequence of fragments; the fragments "Error" and  *)
(* "Traceback" are the markers verify_fix searches for, and `x in y` is    *)
(* the contiguous-subsequence test Contains.                               *)
(* Image names are naturals: DefaultImage is "bug-exorcist-sandbox:latest" *)
(* and ImageTag is an injective function of the Dockerfile text (sha256    *)
(* collisions are not modelled).                                           *)
(* A path is a sequence of components and a component a sequence of name   *)
(* chunks, so that "proj" is a string prefix of "proj-old"; Str gives the  *)
(* string the code compares with startswith.                               *)
(***************************************************************************)
EXTENDS Integers, Sequences, FiniteSets, TLC

\* ------------------------------------------------------------------ bounds
MaxServices == 1      \* sidecar services declared by a manifest: 0..MaxServices
MaxCalls == 3         \* direct calls of Sandbox / verify_fix methods on one agent
MaxVolumes == 1       \* entries of the volumes mapping of a manifest: 0..MaxVolumes
MaxSessions == 2      \* Sandbox / agent objects constructed in one process
MaxTicks == 3         \* clock readings 0..MaxTicks
TicksPerSecond == 2   \* clock resolution: time.time() has a fractional part

\* ------------------------------------------------------- program constants
MaxAttemptsCap == 5   \* min(max_attempts, 5)
DefaultImage == 0     \* "bug-exorcist-sandbox:latest"

\* ------------------------------------------------------------------- text
ErrorMark == "Error"
TraceMark == "Traceback"
NoText == <<>>        \* None or the empty string

MockRunMsg == <<"Mock execution successful (Docker not available).">>
TimeoutMsg == <<ErrorMark, ": Execution timed out (30s limit).">>
UnavailableMsg == <<"Sandbox unavailable: Docker not reachable">>
MockPassMsg == <<"Mock verification passed (Docker not available).">>

\* original_error arguments of verify_fix (None when the caller gives none)
OrigErrors == { NoText, <<"ZeroDivision", ErrorMark>>, <<"panic">> }

\* error_message of a task
TaskErrors == { <<"ZeroDivision", ErrorMark>>, <<"panic">> }

\* what the executed code may print
Logs == { <<"ok">>, <<"panic">>, <<"ZeroDivision", ErrorMark>>,
          <<"0 ", ErrorMark, "s found">>, <<TraceMark>> }

\* `sub in s` on strings
Contains(sub, s) ==
    \E i \in 0..(Len(s) - Len(sub)) : SubSeq(s, i + 1, i + Len(sub)) = sub

VARIABLES
    pc,                  \* position of the task
    mode,                \* "silent" (analyze_and_fix_with_retry) or "observed" (stream_thought_process)
    max_attempts,        \* max_attempts handed to _execute_retry_logic
    primary_provider,    \* "none" (None) or "real"
    secondary_provider,
    fallback_enabled,    \* fallback_handler.is_enabled()
    allow_mock_sandbox,  \* ALLOW_MOCK_SANDBOX_VERIFICATION
    original_error,      \* error_message of the task
    manifest,            \* Sandbox.manifest: setup (what enters the Dockerfile), services (sidecars 1..services)
    use_mock,            \* Sandbox.use_mock
    project_path,        \* Sandbox.project_path
    env,                 \* process environment: ALLOWED_REPO_ROOT, cwd, provider keys, ALLOW_MOCK_LLM
    now,                 \* time.time(), in ticks
    sessions,            \* the Sandbox objects constructed so far: session_id and derived names
    agent,               \* what the last BugExorcistAgent(...) call did
    script,              \* paired runs: the answers the engine and the providers give to the task, fixed beforehand
    returned,            \* calls made on their own or by the WebSocket handler: name, arguments and value of each
    network,             \* Sandbox.network is not None
    sidecar_containers,  \* Sandbox.sidecar_containers
    image,               \* Sandbox.image
    volumes,             \* host paths bound into the last execution container
    engine,              \* container engine: net, sidecars, exec containers, images
    builds,              \* return values of the build_image calls, and whether each built
    attempt_num,         \* loop variable
    all_attempts,        \* attempt history
    fix_result,          \* candidate of the current attempt
    verification,        \* result of the last verify_fix
    final_result,        \* Outcome
    calls,               \* counters of provider invocations, verifications, run_code calls, observer hook calls
    events,              \* what stream_thought_process has yielded: <<type, stage>> of each event, and <<type, stage, hook, attempt>> for the event an observer hook returned
    observer             \* the WebSocket client of an observed task: "connected", "gone", or its answer to the approval request

\* what construction fixed; a task and the direct calls leave it alone
config == <<mode, max_attempts, primary_provider, secondary_provider, fallback_enabled,
            allow_mock_sandbox, original_error, manifest, use_mock,
            project_path, env, now, sessions, agent, script, returned>>
sandboxVars == <<network, sidecar_containers, image, volumes, engine, builds>>
loopVars == <<attempt_num, all_attempts, fix_result, verification, final_result, calls>>
streamVars == <<events, observer>>
vars == <<pc, config, sandboxVars, loopVars, streamVars>>

None == [none |-> TRUE]

\* ------------------------------------------------------------ paths
\* the file system the process sees: directories, and one symbolic link inside
\* the project that points out of it
Slash == <<>>
Srv == << <<"srv">> >>
Proj == << <<"srv">>, <<"proj">> >>
ProjData == << <<"srv">>, <<"proj">>, <<"data">> >>
ProjExt == << <<"srv">>, <<"proj">>, <<"ext">> >>
ProjOld == << <<"srv">>, <<"proj", "-old">> >>
Etc == << <<"etc">> >>
App == << <<"opt">>, <<"app">> >>
Dirs == { Slash, Srv, Proj, ProjData, ProjOld, Etc, << <<"opt">> >>, App }
Symlinks == [p \in {ProjExt} |-> Etc]

Dot == <<".">>
DotDot == <<"..">>
Parent(p) == IF p = <<>> THEN p ELSE SubSeq(p, 1, Len(p) - 1)

\* os.path.normpath on the components of an absolute path: lexical
RECURSIVE normpath(_, _)
normpath(done, rest) ==
    IF rest = <<>> THEN done
    ELSE LET c == Head(rest)
         IN  normpath(IF c = Dot THEN done
                      ELSE IF c = DotDot THEN Parent(done)
                      ELSE Append(done, c), Tail(rest))

\* os.path.join(root, path): an absolute second argument replaces the first
join(root, path) == IF path.abs THEN path.parts ELSE root \o path.parts

\* os.path.abspath of an absolute path
abspath(parts) == normpath(<<>>, parts)

\* Path.resolve(): component by component, following symbolic links
RECURSIVE resolve(_, _)
resolve(done, rest) ==
    IF rest = <<>> THEN done
    ELSE LET c == Head(rest)
             next == IF c = Dot THEN done
                     ELSE IF c = DotDot THEN Parent(done)
                     ELSE Append(done, c)
         IN  resolve(IF next \in DOMAIN Symlinks THEN Symlinks[next] ELSE next, Tail(rest))

\* `root in p.parents or root == p`: root is p or a directory above it
IsInside(root, p) == Len(root) <= Len(p) /\ SubSeq(p, 1, Len(root)) = root

\* the string of an absolute path
RECURSIVE Str(_)
Str(p) == IF p = <<>> THEN <<>> ELSE <<"/">> \o Head(p) \o Str(Tail(p))
PathStr(p) == IF p = <<>> THEN <<"/">> ELSE Str(p)

\* s.startswith(prefix)
StartsWith(s, prefix) == Len(prefix) <= Len(s) /\ SubSeq(s, 1, Len(prefix)) = prefix

\* keys of the volumes mapping of a manifest
Rel(parts) == [abs |-> FALSE, parts |-> parts]
Abs(parts) == [abs |-> TRUE, parts |-> parts]
HostPaths == { Rel(<< <<"data">> >>), Rel(<< Dot >>), Rel(<< DotDot, <<"proj", "-old">> >>),
               Rel(<< <<"ext">> >>), Rel(<< <<"data">>, DotDot, DotDot >>), Abs(Etc) }

\* the volume loop of run_code: the entries that are bound, each with its source
volume_binds(root, vols) ==
    LET project_root == abspath(root)
        abs_host_path(h) == abspath(join(project_root, h))
    IN  { [host |-> h, bind |-> abs_host_path(h)] :
            h \in { h \in vols : StartsWith(PathStr(abs_host_path(h)), PathStr(project_root)) } }

\* ------------------------------------------------------------ Sandbox
\* manifests: none (.exorcist.yaml absent), or setup commands and n sidecar services
NumSetups == 2
Manifests == { [setup |-> IF n = 0 THEN 0 ELSE 1, services |-> n, volumes |-> {}] :
                 n \in 0..MaxServices }

\* manifests of the projects a task is run on: none, or setup commands and one sidecar
TaskManifests == { [setup |-> 0, services |-> 0, volumes |-> {}],
                   [setup |-> 1, services |-> 1, volumes |-> {}] }

\* manifests that declare volumes
VolumeManifests == { [setup |-> 0, services |-> 0, volumes |-> v] :
                       v \in { w \in SUBSET HostPaths : Cardinality(w) <= MaxVolumes } }

\* generate_dynamic_dockerfile: the text starts with "FROM {base_image}" and goes on
\* with the lines derived from the manifest and the project type
generate_dynamic_dockerfile(m, base_image) == <<base_image, m.setup>>

\* f"bug-exorcist-{project_id}:{sha256(dockerfile)[:12]}" - one tag per Dockerfile text
ImageTag(dockerfile) == dockerfile[1] * NumSetups + dockerfile[2] + 1

\* Sandbox.build_image.  lookup: "answers" or "raises" (an engine error other than
\* ImageNotFound); build_ok: the engine build succeeds.
\* Result: ret (returned tag), image (self.image afterwards), images (engine cache),
\* built (client.api.build was invoked), raised (an exception left build_image),
\* custom (the call returned custom_image_tag: cache hit or successful build).
build_image(lookup, build_ok) ==
    LET dockerfile_content == generate_dynamic_dockerfile(manifest, image)
        custom_image_tag == ImageTag(dockerfile_content)
        same == [ret |-> image, image |-> image, images |-> engine.images,
                 built |-> FALSE, raised |-> FALSE, custom |-> FALSE]
    IN  IF use_mock THEN same
        ELSE IF lookup = "raises" THEN [same EXCEPT !.raised = TRUE]
        ELSE IF custom_image_tag \in engine.images
             THEN [same EXCEPT !.ret = custom_image_tag, !.image = custom_image_tag,
                               !.custom = TRUE]
        ELSE IF build_ok
             THEN [ret |-> custom_image_tag, image |-> custom_image_tag,
                   images |-> engine.images \cup {custom_image_tag},
                   built |-> TRUE, raised |-> FALSE, custom |-> TRUE]
        ELSE [same EXCEPT !.built = TRUE]

\* What the engine does to one sidecar during a run_code call
SidecarFates == {"start_fails", "stop_fails", "remove_fails", "ok"}

\* What happens to the execution container: containers.run raises (also the
\* statements before it), the container is created and attach_socket / send / logs
\* raises, container.wait raises (the 30 s ceiling) and kill succeeds or raises, or
\* the container exits with a status and logs
ExecFates ==
    { [kind |-> k, code |-> 0, logs |-> NoText, kill_ok |-> TRUE] : k \in {"run_raises", "io_raises"} }
    \cup { [kind |-> "timeout", code |-> 0, logs |-> NoText, kill_ok |-> k] : k \in BOOLEAN }
    \cup { [kind |-> "exit", code |-> c, logs |-> l, kill_ok |-> TRUE] : c \in 0..1, l \in Logs }

\* inputs of one run_code call: fate of each sidecar, of the execution container,
\* and whether container.remove / network.remove succeed.  Only the answers the
\* call asks the engine for are enumerated: none in mock mode, no removal of a
\* container that was not created or of a network the session does not hold, and
\* a sidecar whose name is still taken by a leftover container cannot start.
RunInputs ==
    { inp \in [sc : [1..manifest.services -> SidecarFates], ex : ExecFates,
               crm : BOOLEAN, nrm : BOOLEAN] :
        /\ use_mock => inp.ex.kind = "run_raises"
        /\ inp.ex.kind = "run_raises" => inp.crm
        /\ ~network => inp.nrm
        /\ \A i \in 1..manifest.services :
              i \in engine.sidecars => inp.sc[i] = "start_fails" }

\* start_sidecars: containers.run per declared service, in order; a start that
\* raises (also on a name conflict with a leftover container) is logged and skipped
RECURSIVE start_sidecars(_, _)
start_sidecars(i, sc) ==
    IF i > manifest.services THEN <<>>
    ELSE (IF sc[i] # "start_fails" /\ i \notin engine.sidecars THEN <<i>> ELSE <<>>)
         \o start_sidecars(i + 1, sc)

Range(s) == { s[i] : i \in 1..Len(s) }

\* cleanup_sidecars: the sidecars of the list that are gone from the engine afterwards
\* (stop and remove are in one try block: a failing stop skips the remove)
cleanup_removed(list, sc) == { c \in Range(list) : sc[c] = "ok" }

SystemErrorMsg == <<"System ", ErrorMark, ": engine">>

\* run_code whose timeout message lacks the "Error" prefix
run_code_TimeoutNoError(inp) ==
    IF use_mock
    THEN [result |-> MockRunMsg, started |-> <<>>, network |-> network,
          sidecar_containers |-> sidecar_containers, engine |-> engine,
          ran |-> FALSE, killed |-> FALSE, on_net |-> FALSE, volumes |-> {}]
    ELSE
    LET started == start_sidecars(1, inp.sc)
        list == sidecar_containers \o started
        container == inp.ex.kind # "run_raises"
        result ==
            CASE inp.ex.kind \in {"run_raises", "io_raises"} -> SystemErrorMsg
              [] inp.ex.kind = "timeout" ->
                    IF inp.ex.kill_ok THEN <<"Execution timed out (30s limit).">> ELSE SystemErrorMsg
              [] inp.ex.kind = "exit" ->
                    IF inp.ex.code # 0
                    THEN <<ErrorMark, " (Exit Code 1):\n">> \o inp.ex.logs
                    ELSE inp.ex.logs
        \* finally: container.remove(force=True), then cleanup_sidecars()
        exec_left == container /\ ~inp.crm
        sidecars_left == (engine.sidecars \cup Range(started)) \ cleanup_removed(list, inp.sc)
        net_removed == network /\ inp.nrm /\ ~exec_left /\ (Range(started) \cap sidecars_left = {})
    IN  [result |-> result, started |-> started, network |-> FALSE,
         sidecar_containers |-> <<>>,
         engine |-> [engine EXCEPT !.sidecars = sidecars_left,
                                   !.exec = engine.exec \/ exec_left,
                                   !.net = engine.net /\ ~net_removed],
         ran |-> container,
         killed |-> inp.ex.kind = "timeout" /\ inp.ex.kill_ok,
         on_net |-> container /\ network,
         volumes |-> IF container THEN volume_binds(project_path, manifest.volumes) ELSE {}]

\* Sandbox.run_code.  Result: result (returned text), started (sidecars started),
\* network / sidecar_containers (fields afterwards), engine (engine afterwards),
\* ran (an execution container was created from self.image), killed, on_net
\* (the execution container was attached to the session network), volumes (the
\* binds of the execution container).
run_code(inp) ==
    IF use_mock
    THEN [result |-> MockRunMsg, started |-> <<>>, network |-> network,
          sidecar_containers |-> sidecar_containers, engine |-> engine,
          ran |-> FALSE, killed |-> FALSE, on_net |-> FALSE, volumes |-> {}]
    ELSE
    LET started == start_sidecars(1, inp.sc)
        list == sidecar_containers \o started
        container == inp.ex.kind # "run_raises"
        result ==
            CASE inp.ex.kind \in {"run_raises", "io_raises"} -> SystemErrorMsg
              [] inp.ex.kind = "timeout" ->
                    IF inp.ex.kill_ok THEN TimeoutMsg ELSE SystemErrorMsg
              [] inp.ex.kind = "exit" ->
                    IF inp.ex.code # 0
                    THEN <<ErrorMark, " (Exit Code 1):\n">> \o inp.ex.logs
                    ELSE inp.ex.logs
        \* finally: container.remove(force=True), then cleanup_sidecars()
        exec_left == container /\ ~inp.crm
        sidecars_left == (engine.sidecars \cup Range(started)) \ cleanup_removed(list, inp.sc)
        net_removed == network /\ inp.nrm /\ ~exec_left /\ (Range(started) \cap sidecars_left = {})
    IN  [result |-> result, started |-> started, network |-> FALSE,
         sidecar_containers |-> <<>>,
         engine |-> [engine EXCEPT !.sidecars = sidecars_left,
                                   !.exec = engine.exec \/ exec_left,
                                   !.net = engine.net /\ ~net_removed],
         ran |-> container,
         killed |-> inp.ex.kind = "timeout" /\ inp.ex.kill_ok,
         on_net |-> container /\ network,
         volumes |-> IF container THEN volume_binds(project_path, manifest.volumes) ELSE {}]

\* ------------------------------------------------------------ verify_fix
\* verify_fix without the use_mock test after run_code
VerifyFixNoMockCheck(result, orig) ==
    IF FALSE
    THEN IF ~allow_mock_sandbox
         THEN [verified |-> FALSE,
               output |-> <<"Sandbox unavailable: Docker not reachable and mock verification is disabled.">>,
               new_error |-> UnavailableMsg]
         ELSE [verified |-> TRUE, output |-> MockPassMsg, new_error |-> NoText]
    ELSE IF orig # NoText /\ Contains(orig, result)
         THEN [verified |-> FALSE, output |-> result,
               new_error |-> <<"Original error persists: ">> \o orig]
    ELSE IF Contains(<<ErrorMark>>, result) \/ Contains(<<TraceMark>>, result)
         THEN [verified |-> FALSE, output |-> result, new_error |-> result]
    ELSE [verified |-> TRUE, output |-> result, new_error |-> NoText]


\* verify_fix with `original_error in result` not guarded by `original_error and`
VerifyFixNoneGuardLost(result, orig) ==
    IF use_mock
    THEN IF ~allow_mock_sandbox
         THEN [verified |-> FALSE,
               output |-> <<"Sandbox unavailable: Docker not reachable and mock verification is disabled.">>,
               new_error |-> UnavailableMsg]
         ELSE [verified |-> TRUE, output |-> MockPassMsg, new_error |-> NoText]
    ELSE IF Contains(orig, result)
         THEN [verified |-> FALSE, output |-> result,
               new_error |-> <<"Original error persists: ">> \o orig]
    ELSE IF Contains(<<ErrorMark>>, result) \/ Contains(<<TraceMark>>, result)
         THEN [verified |-> FALSE, output |-> result, new_error |-> result]
    ELSE [verified |-> TRUE, output |-> result, new_error |-> NoText]


VerifyFix(result, orig) ==
    IF use_mock
    THEN IF ~allow_mock_sandbox
         THEN [verified |-> FALSE,
               output |-> <<"Sandbox unavailable: Docker not reachable and mock verification is disabled.">>,
               new_error |-> UnavailableMsg]
         ELSE [verified |-> TRUE, output |-> MockPassMsg, new_error |-> NoText]
    ELSE IF orig # NoText /\ Contains(orig, result)
         THEN [verified |-> FALSE, output |-> result,
               new_error |-> <<"Original error persists: ">> \o orig]
    ELSE IF Contains(<<ErrorMark>>, result) \/ Contains(<<TraceMark>>, result)
         THEN [verified |-> FALSE, output |-> result, new_error |-> result]
    ELSE [verified |-> TRUE, output |-> result, new_error |-> NoText]

\* ------------------------------------------------------------ analyze_error
\* a provider attribute of the agent: None, or a chat model.  A MockLLM is a chat
\* model whose call always answers; analyze_error returns its canned fix before the
\* retry context is built, which makes no difference: an ERROR record is only ever
\* followed by attempts on the provider that raised, never on a MockLLM.
ProviderKinds == {"none", "real"}
NoFix == <<>>       \* the record has no "fixed_code" key
Responses == {"ok", "raises"}

\* the provider object analyze_error ends up with
ProviderFor(use_secondary) ==
    LET provider == IF use_secondary THEN secondary_provider ELSE primary_provider
    IN  IF provider = "none" THEN secondary_provider ELSE provider

\* which configured provider that object is
ProviderName(use_secondary) ==
    IF use_secondary \/ primary_provider = "none" THEN "secondary" ELSE "primary"

\* analyze_error that raises when the first provider call raises, without fail-over
analyze_error_NoFailover(previous_attempts, use_secondary, resp, n) ==
    LET provider == ProviderFor(use_secondary)
        who == ProviderName(use_secondary)
        out(raised, error, k) ==
            [raised |-> raised, error |-> error, ai_agent |-> who, invoked |-> k,
             attempt_number |-> Len(previous_attempts) + 1]
    IN  IF provider = "none" THEN out(TRUE, "ValueError", n)
        ELSE IF \E i \in 1..Len(previous_attempts) : previous_attempts[i].fixed_code = NoFix
             THEN out(TRUE, "KeyError", n)
        ELSE IF resp[n + 1] = "ok" THEN out(FALSE, "", n + 1)
        ELSE out(TRUE, "ProviderError", n + 1)

\* analyze_error(previous_attempts, use_secondary).  resp[k] is the answer of the
\* k-th provider.ainvoke call of this invocation, n the number of calls made so far.
\* Result: raised, error (kind of exception), ai_agent (who produced the fix),
\* invoked (ainvoke calls made), attempt_number.
RECURSIVE analyze_error(_, _, _, _)
analyze_error(previous_attempts, use_secondary, resp, n) ==
    LET provider == ProviderFor(use_secondary)
        who == ProviderName(use_secondary)
        out(raised, error, k) ==
            [raised |-> raised, error |-> error, ai_agent |-> who, invoked |-> k,
             attempt_number |-> Len(previous_attempts) + 1]
    IN  IF provider = "none" THEN out(TRUE, "ValueError", n)
        \* the retry context reads attempt['fixed_code'] of every previous record
        ELSE IF \E i \in 1..Len(previous_attempts) : previous_attempts[i].fixed_code = NoFix
             THEN out(TRUE, "KeyError", n)
        ELSE IF resp[n + 1] = "ok" THEN out(FALSE, "", n + 1)
        ELSE IF ~use_secondary /\ secondary_provider # "none"
             THEN analyze_error(previous_attempts, TRUE, resp, n + 1)
        ELSE out(TRUE, "ProviderError", n + 1)

\* ------------------------------------------------------------ initial states
\* Sandbox.__init__ has run: the engine is unreachable (use_mock; the manifest's
\* services and the Dockerfile are then never used and ALLOW_MOCK_SANDBOX_VERIFICATION
\* is read), or it is reachable and _create_network created the session network or
\* failed to (network stays None).
\* images an earlier session of the same project may have left in the engine cache
CachedBefore(m) == { {}, {ImageTag(generate_dynamic_dockerfile(m, DefaultImage))} }

SandboxInit(manifests, cached) ==
    /\ use_mock \in BOOLEAN
    /\ allow_mock_sandbox \in (IF use_mock THEN BOOLEAN ELSE {FALSE})
    /\ manifest \in (IF use_mock THEN {[setup |-> 0, services |-> 0, volumes |-> {}]}
                                 ELSE manifests)
    /\ network \in (IF use_mock THEN {FALSE} ELSE BOOLEAN)
    /\ sidecar_containers = <<>>
    /\ image = DefaultImage
    /\ \E imgs \in (IF cached /\ ~use_mock THEN CachedBefore(manifest) ELSE {{}}) :
          engine = [net |-> network, sidecars |-> {}, exec |-> FALSE, images |-> imgs]
    /\ builds = <<>>
    /\ volumes = {}

\* f"exorcist-{int(time.time())}" at clock reading t, and the names derived from it
SessionId(t) == <<"exorcist-", t \div TicksPerSecond>>
NetworkName(session_id) == <<"net-">> \o session_id
SidecarName(name, session_id) == <<"sidecar-", name, "-">> \o session_id

\* the process of a task or of direct calls: no ALLOWED_REPO_ROOT, one agent with
\* its Sandbox constructed at time 0
ProcessInit ==
    /\ env = [has_allowed_root |-> FALSE, allowed_root |-> Slash, cwd |-> App]
    /\ now = 0
    /\ sessions = << [session_id |-> SessionId(0), refused |-> FALSE, project_path |-> Proj] >>
    /\ agent = [state |-> "constructed", primary_usable |-> TRUE,
                secondary_usable |-> TRUE, allow_mock_llm |-> FALSE]
    /\ script = <<>>
    /\ returned = <<>>

LoopInit ==
    /\ attempt_num = 0
    /\ all_attempts = <<>>
    /\ fix_result = None
    /\ verification = None
    /\ final_result = None
    /\ calls = [provider |-> 0, verify |-> 0, run |-> 0, hooks |-> 0]
    /\ events = <<>>
    /\ observer = "connected"

\* an agent has been constructed and one of its two entry points is about to be called
Init ==
    /\ pc = "idle"
    /\ mode \in {"silent", "observed"}
    /\ max_attempts \in 1..MaxAttemptsCap
    /\ primary_provider \in ProviderKinds
    /\ secondary_provider \in ProviderKinds
    /\ fallback_enabled \in BOOLEAN
    /\ original_error \in TaskErrors
    /\ SandboxInit(TaskManifests, FALSE)
    /\ project_path = Proj
    /\ ProcessInit
    /\ LoopInit


\* ------------------------------------------------------------ FallbackHandler
\* keys of FallbackHandler.error_patterns in insertion order; a name is the
\* fragment sequence of its text
error_patterns == << <<"ZeroDivision", ErrorMark>>, <<"Index", ErrorMark>>,
                     <<"Key", ErrorMark>>, <<"Type", ErrorMark>>,
                     <<"Attribute", ErrorMark>>, <<"Value", ErrorMark>>,
                     <<"Name", ErrorMark>>, <<"Import", ErrorMark>> >>

NoType == <<>>        \* identify_error_type returns None

\* identify_error_type that returns the catalog name occurring first in the message
identify_error_type_FirstInText(error_message) ==
    LET at(k, p) == /\ p + Len(error_patterns[k]) - 1 <= Len(error_message)
                    /\ SubSeq(error_message, p, p + Len(error_patterns[k]) - 1)
                          = error_patterns[k]
        hits == { p \in 1..Len(error_message) : \E k \in 1..Len(error_patterns) : at(k, p) }
    IN  IF hits = {} THEN NoType
        ELSE LET p == CHOOSE q \in hits : \A o \in hits : q <= o
             IN  error_patterns[CHOOSE k \in 1..Len(error_patterns) : at(k, p)]

\* FallbackHandler.identify_error_type: `for error_type in self.error_patterns.keys():
\* if error_type in error_message: return error_type`, else None
RECURSIVE identify_from(_, _)
identify_from(k, error_message) ==
    IF k > Len(error_patterns) THEN NoType
    ELSE IF Contains(error_patterns[k], error_message) THEN error_patterns[k]
    ELSE identify_from(k + 1, error_message)

identify_error_type(error_message) == identify_from(1, error_message)

\* code_snippet[:500] + "..." when the snippet is longer; a snippet is its length
SnippetLimit == 500
Snippets == { SnippetLimit, SnippetLimit + 1 }
Unknown == <<"Unknown">>

\* FallbackHandler.generate_fallback_response; t is the reading of datetime.now().
\* The fixed texts (debugging steps, resources, next steps) are left out; guidance
\* is the catalog entry used for manual_guidance.
generate_fallback_response(error_message, code_snippet, bug_id, total_attempts, attempts, t) ==
    LET error_type == identify_error_type(error_message)
    IN  [bug_id |-> bug_id,
         total_attempts |-> total_attempts,
         timestamp |-> t,
         original_error |-> error_message,
         error_type |-> IF error_type # NoType THEN error_type ELSE Unknown,
         code_snippet |-> IF code_snippet > SnippetLimit
                          THEN [chars |-> SnippetLimit, ellipsis |-> TRUE]
                          ELSE [chars |-> code_snippet, ellipsis |-> FALSE],
         guidance |-> IF error_type # NoType THEN error_type ELSE Unknown,
         attempt_summary |-> [i \in 1..Len(attempts) |->
                                 [attempt_number |-> attempts[i].attempt_number,
                                  result |-> attempts[i].verification_result]]]

\* code_snippet and self.bug_id of the task
TaskSnippet == SnippetLimit
TaskBugId == "BUG-1"

\* ------------------------------------------------------------ build_image calls
DoBuild(lookup, build_ok) ==
    LET b == build_image(lookup, build_ok)
    IN  /\ image' = b.image
        /\ engine' = [engine EXCEPT !.images = b.images]
        /\ builds' = Append(builds, [ret |-> b.ret, built |-> b.built, raised |-> b.raised,
                                     custom |-> b.custom])
        /\ UNCHANGED <<network, sidecar_containers, volumes>>

\* ------------------------------------------------------------ the event stream
\* stream_thought_process passes the four hooks, analyze_and_fix_with_retry none
Observed == mode = "observed"

\* the task is at position p and, when observed, its consumer still iterates it
At(p) == pc = p /\ observer = "connected"

\* `yield` of the events es, in order
Emit(es) ==
    /\ events' = IF Observed THEN events \o es ELSE events
    /\ UNCHANGED observer

\* n hook calls, when hooks were passed
Hooks(n) == IF Observed THEN n ELSE 0

\* analyze_and_fix_with_retry / stream_thought_process is called; the latter yields
\* its first three events
StartTask ==
    /\ At("idle")
    /\ pc' = "provision"
    /\ Emit(<< <<"status", "initialization">>, <<"thought", "initialization">>,
               <<"status", "provisioning">> >>)
    /\ UNCHANGED <<config, sandboxVars, loopVars>>

\* silent: `await self.sandbox.build_image()` at the head of _execute_retry_logic,
\* outside any try; observed: the build task of stream_thought_process, inside its try
\* the log callback is called once on a cache hit and once before an engine build;
\* the except clause of stream_thought_process yields the error event
Provision ==
    /\ At("provision")
    /\ \E lookup \in {"answers", "raises"}, build_ok \in BOOLEAN :
          LET b == build_image(lookup, build_ok)
              logged == IF b.built \/ b.custom THEN << <<"thought", "provisioning">> >>
                        ELSE <<>>
          IN  /\ DoBuild(lookup, build_ok)
              /\ pc' = IF b.raised
                       THEN (IF mode = "silent" THEN "raised" ELSE "error_event")
                       ELSE (IF mode = "silent" THEN "loop" ELSE "diagnostics")
              /\ Emit(IF b.raised THEN << <<"error", "error">> >>
                      ELSE logged \o << <<"status", "provisioning">> >>)
    /\ UNCHANGED <<config, loopVars>>

ApplyRun(r) ==
    /\ network' = r.network
    /\ sidecar_containers' = r.sidecar_containers
    /\ engine' = r.engine
    /\ volumes' = r.volumes
    /\ UNCHANGED <<image, builds>>

\* observed: get_diagnostics runs its probe through run_code
Diagnostics ==
    /\ At("diagnostics")
    /\ \E inp \in RunInputs :
          /\ ApplyRun(run_code(inp))
          /\ calls' = [calls EXCEPT !.run = @ + 1]
    /\ pc' = "loop"
    /\ Emit(<< <<"thought", "provisioning">>, <<"thought", "initialization">>,
               <<"status", "analysis">>, <<"thought", "analysis">> >>)
    /\ UNCHANGED <<config, attempt_num, all_attempts, fix_result, verification, final_result>>

\* ------------------------------------------------------------ _execute_retry_logic
\* use_secondary without the `attempt_num > 1` conjunct
UseSecondaryFromFirst(n) == secondary_provider # "none"

\* use_secondary of the attempt in progress
UseSecondary(n) == n > 1 /\ secondary_provider # "none"

\* LoopHead with the range one too long: range(1, max_attempts + 2)
LoopHeadOffByOne ==
    /\ At("loop")
    /\ IF attempt_num <= max_attempts
       THEN /\ attempt_num' = attempt_num + 1
            /\ fix_result' = None
            /\ verification' = None
            /\ IF ProviderFor(UseSecondary(attempt_num + 1)) = "none"
               THEN /\ pc' = IF mode = "silent" THEN "raised" ELSE "error_event"
                    /\ Emit(<< <<"error", "error">> >>)
                    /\ UNCHANGED calls
               ELSE /\ pc' = "analyze"
                    /\ Emit(<< <<"thought", "analysis", "on_attempt_start", attempt_num + 1>> >>)
                    /\ calls' = [calls EXCEPT !.hooks = @ + Hooks(1)]
       ELSE /\ pc' = "finish"
            /\ UNCHANGED <<attempt_num, fix_result, verification, calls, streamVars>>
    /\ UNCHANGED <<config, sandboxVars, all_attempts, final_result>>

\* LoopHead without the `current_provider is None` test: analyze_error is reached
LoopHeadNoProviderCheck ==
    /\ At("loop")
    /\ IF attempt_num < max_attempts
       THEN /\ attempt_num' = attempt_num + 1
            /\ fix_result' = None
            /\ verification' = None
            /\ IF FALSE
               THEN /\ pc' = IF mode = "silent" THEN "raised" ELSE "error_event"
                    /\ Emit(<< <<"error", "error">> >>)
                    /\ UNCHANGED calls
               ELSE /\ pc' = "analyze"
                    /\ Emit(<< <<"thought", "analysis", "on_attempt_start", attempt_num + 1>> >>)
                    /\ calls' = [calls EXCEPT !.hooks = @ + Hooks(1)]
       ELSE /\ pc' = "finish"
            /\ UNCHANGED <<attempt_num, fix_result, verification, calls, streamVars>>
    /\ UNCHANGED <<config, sandboxVars, all_attempts, final_result>>

\* `for attempt_num in range(1, max_attempts + 1)` and the provider selection at the
\* head of the body; with no provider at all the ValueError leaves the loop,
\* otherwise on_attempt_start is called.
\* fix_result and verification are rebound by the body before it reads them: the
\* values of the previous iteration are dropped here.
LoopHead ==
    /\ At("loop")
    /\ IF attempt_num < max_attempts
       THEN /\ attempt_num' = attempt_num + 1
            /\ fix_result' = None
            /\ verification' = None
            /\ IF ProviderFor(UseSecondary(attempt_num + 1)) = "none"
               THEN /\ pc' = IF mode = "silent" THEN "raised" ELSE "error_event"
                    /\ Emit(<< <<"error", "error">> >>)
                    /\ UNCHANGED calls
               ELSE /\ pc' = "analyze"
                    /\ Emit(<< <<"thought", "analysis", "on_attempt_start", attempt_num + 1>> >>)
                    /\ calls' = [calls EXCEPT !.hooks = @ + Hooks(1)]
       ELSE /\ pc' = "finish"
            /\ UNCHANGED <<attempt_num, fix_result, verification, calls, streamVars>>
    /\ UNCHANGED <<config, sandboxVars, all_attempts, final_result>>

ErrorRecord(n) ==
    [attempt_number |-> n, ai_agent |-> ProviderName(UseSecondary(n)),
     verification_result |-> "ERROR", fixed_code |-> NoFix]

\* Analyze whose except clause calls on_attempt_failed for the last allowed attempt too
AnalyzeFailedHookOnLast ==
    /\ At("analyze")
    /\ \E resp \in [1..2 -> Responses] :
          LET a == analyze_error(all_attempts, UseSecondary(attempt_num), resp, 0)
              \* on_fix_generated, or on_attempt_failed before a further attempt
              hooked == TRUE
          IN  /\ calls' = [calls EXCEPT !.provider = @ + a.invoked,
                                        !.hooks = @ + Hooks(IF hooked THEN 1 ELSE 0)]
              /\ Emit(IF ~a.raised
                      THEN << <<"thought", "analysis", "on_fix_generated", attempt_num>> >>
                      ELSE IF hooked
                      THEN << <<"thought", "verification", "on_attempt_failed", attempt_num>> >>
                      ELSE <<>>)
              /\ IF a.raised
                 THEN /\ all_attempts' = Append(all_attempts, ErrorRecord(attempt_num))
                      /\ pc' = IF attempt_num >= max_attempts THEN "finish" ELSE "loop"
                      /\ UNCHANGED fix_result
                 ELSE /\ fix_result' = [ai_agent |-> a.ai_agent,
                                        attempt_number |-> a.attempt_number,
                                        fixed_code |-> <<a.ai_agent, attempt_num>>]
                      /\ pc' = "verify"
                      /\ UNCHANGED all_attempts
    /\ UNCHANGED <<config, sandboxVars, attempt_num, verification, final_result>>

\* `fix_result = await self.analyze_error(...)`; an exception is handled by the
\* except clause of the loop body: ERROR record, then next iteration or break
Analyze ==
    /\ At("analyze")
    /\ \E resp \in [1..2 -> Responses] :
          LET a == analyze_error(all_attempts, UseSecondary(attempt_num), resp, 0)
              \* on_fix_generated, or on_attempt_failed before a further attempt
              hooked == ~a.raised \/ attempt_num < max_attempts
          IN  /\ calls' = [calls EXCEPT !.provider = @ + a.invoked,
                                        !.hooks = @ + Hooks(IF hooked THEN 1 ELSE 0)]
              /\ Emit(IF ~a.raised
                      THEN << <<"thought", "analysis", "on_fix_generated", attempt_num>> >>
                      ELSE IF hooked
                      THEN << <<"thought", "verification", "on_attempt_failed", attempt_num>> >>
                      ELSE <<>>)
              /\ IF a.raised
                 THEN /\ all_attempts' = Append(all_attempts, ErrorRecord(attempt_num))
                      /\ pc' = IF attempt_num >= max_attempts THEN "finish" ELSE "loop"
                      /\ UNCHANGED fix_result
                 ELSE /\ fix_result' = [ai_agent |-> a.ai_agent,
                                        attempt_number |-> a.attempt_number,
                                        fixed_code |-> <<a.ai_agent, attempt_num>>]
                      /\ pc' = "verify"
                      /\ UNCHANGED all_attempts
    /\ UNCHANGED <<config, sandboxVars, attempt_num, verification, final_result>>

\* Verify without the `break` after a verified fix
VerifyNoBreak ==
    /\ At("verify")
    /\ \E inp \in RunInputs :
          LET r == run_code(inp)
              v == VerifyFix(r.result, original_error)
              \* on_verification_complete, and on_attempt_failed before a further attempt
              again == ~v.verified /\ attempt_num < max_attempts
          IN  /\ ApplyRun(r)
              /\ calls' = [calls EXCEPT !.verify = @ + 1, !.run = @ + 1,
                                        !.hooks = @ + Hooks(IF again THEN 2 ELSE 1)]
              /\ Emit(<< <<"status", IF v.verified THEN "complete" ELSE "verification",
                           "on_verification_complete", attempt_num>> >>
                      \o (IF again
                          THEN << <<"thought", "verification", "on_attempt_failed", attempt_num>> >>
                          ELSE <<>>))
              /\ verification' = [verified |-> v.verified, output |-> v.output,
                                  new_error |-> v.new_error, attempt |-> attempt_num,
                                  orig |-> original_error,
                                  exec |-> inp.ex, ran |-> r.ran, killed |-> r.killed]
              /\ all_attempts' = Append(all_attempts,
                    [attempt_number |-> attempt_num, ai_agent |-> fix_result.ai_agent,
                     verification_result |-> IF v.verified THEN "PASSED" ELSE "FAILED",
                     fixed_code |-> fix_result.fixed_code])
              /\ IF v.verified
                 THEN /\ final_result' = [success |-> TRUE, final_fix |-> fix_result.fixed_code,
                                          total_attempts |-> attempt_num, fallback |-> FALSE]
                      /\ pc' = "loop"
                 ELSE /\ pc' = "loop"
                      /\ UNCHANGED final_result
    /\ UNCHANGED <<config, attempt_num, fix_result>>

\* Verify whose success Outcome returns the candidate of the first recorded attempt
VerifyStaleFix ==
    /\ At("verify")
    /\ \E inp \in RunInputs :
          LET r == run_code(inp)
              v == VerifyFix(r.result, original_error)
              \* on_verification_complete, and on_attempt_failed before a further attempt
              again == ~v.verified /\ attempt_num < max_attempts
          IN  /\ ApplyRun(r)
              /\ calls' = [calls EXCEPT !.verify = @ + 1, !.run = @ + 1,
                                        !.hooks = @ + Hooks(IF again THEN 2 ELSE 1)]
              /\ Emit(<< <<"status", IF v.verified THEN "complete" ELSE "verification",
                           "on_verification_complete", attempt_num>> >>
                      \o (IF again
                          THEN << <<"thought", "verification", "on_attempt_failed", attempt_num>> >>
                          ELSE <<>>))
              /\ verification' = [verified |-> v.verified, output |-> v.output,
                                  new_error |-> v.new_error, attempt |-> attempt_num,
                                  orig |-> original_error,
                                  exec |-> inp.ex, ran |-> r.ran, killed |-> r.killed]
              /\ all_attempts' = Append(all_attempts,
                    [attempt_number |-> attempt_num, ai_agent |-> fix_result.ai_agent,
                     verification_result |-> IF v.verified THEN "PASSED" ELSE "FAILED",
                     fixed_code |-> fix_result.fixed_code])
              /\ IF v.verified
                 THEN /\ final_result' = [success |-> TRUE, final_fix |-> Append(all_attempts, fix_result)[1].fixed_code,
                                          total_attempts |-> attempt_num, fallback |-> FALSE]
                      /\ pc' = "finish"
                 ELSE /\ pc' = "loop"
                      /\ UNCHANGED final_result
    /\ UNCHANGED <<config, attempt_num, fix_result>>

\* Verify that does not append the record of the attempt to the history
VerifyNoRecord ==
    /\ At("verify")
    /\ \E inp \in RunInputs :
          LET r == run_code(inp)
              v == VerifyFix(r.result, original_error)
              \* on_verification_complete, and on_attempt_failed before a further attempt
              again == ~v.verified /\ attempt_num < max_attempts
          IN  /\ ApplyRun(r)
              /\ calls' = [calls EXCEPT !.verify = @ + 1, !.run = @ + 1,
                                        !.hooks = @ + Hooks(IF again THEN 2 ELSE 1)]
              /\ Emit(<< <<"status", IF v.verified THEN "complete" ELSE "verification",
                           "on_verification_complete", attempt_num>> >>
                      \o (IF again
                          THEN << <<"thought", "verification", "on_attempt_failed", attempt_num>> >>
                          ELSE <<>>))
              /\ verification' = [verified |-> v.verified, output |-> v.output,
                                  new_error |-> v.new_error, attempt |-> attempt_num,
                                  orig |-> original_error,
                                  exec |-> inp.ex, ran |-> r.ran, killed |-> r.killed]
              /\ UNCHANGED all_attempts
              /\ IF v.verified
                 THEN /\ final_result' = [success |-> TRUE, final_fix |-> fix_result.fixed_code,
                                          total_attempts |-> attempt_num, fallback |-> FALSE]
                      /\ pc' = "finish"
                 ELSE /\ pc' = "loop"
                      /\ UNCHANGED final_result
    /\ UNCHANGED <<config, attempt_num, fix_result>>

\* Verify that calls on_attempt_failed before on_verification_complete
VerifyFailedHookFirst ==
    /\ At("verify")
    /\ \E inp \in RunInputs :
          LET r == run_code(inp)
              v == VerifyFix(r.result, original_error)
              \* on_verification_complete, and on_attempt_failed before a further attempt
              again == ~v.verified /\ attempt_num < max_attempts
          IN  /\ ApplyRun(r)
              /\ calls' = [calls EXCEPT !.verify = @ + 1, !.run = @ + 1,
                                        !.hooks = @ + Hooks(IF again THEN 2 ELSE 1)]
              /\ Emit((IF again
                       THEN << <<"thought", "verification", "on_attempt_failed", attempt_num>> >>
                       ELSE <<>>)
                      \o << <<"status", IF v.verified THEN "complete" ELSE "verification",
                              "on_verification_complete", attempt_num>> >>)
              /\ verification' = [verified |-> v.verified, output |-> v.output,
                                  new_error |-> v.new_error, attempt |-> attempt_num,
                                  orig |-> original_error,
                                  exec |-> inp.ex, ran |-> r.ran, killed |-> r.killed]
              /\ all_attempts' = Append(all_attempts,
                    [attempt_number |-> attempt_num, ai_agent |-> fix_result.ai_agent,
                     verification_result |-> IF v.verified THEN "PASSED" ELSE "FAILED",
                     fixed_code |-> fix_result.fixed_code])
              /\ IF v.verified
                 THEN /\ final_result' = [success |-> TRUE, final_fix |-> fix_result.fixed_code,
                                          total_attempts |-> attempt_num, fallback |-> FALSE]
                      /\ pc' = "finish"
                 ELSE /\ pc' = "loop"
                      /\ UNCHANGED final_result
    /\ UNCHANGED <<config, attempt_num, fix_result>>

\* `verification = await self.verify_fix(...)`, the record, and the verified check
Verify ==
    /\ At("verify")
    /\ \E inp \in RunInputs :
          LET r == run_code(inp)
              v == VerifyFix(r.result, original_error)
              \* on_verification_complete, and on_attempt_failed before a further attempt
              again == ~v.verified /\ attempt_num < max_attempts
          IN  /\ ApplyRun(r)
              /\ calls' = [calls EXCEPT !.verify = @ + 1, !.run = @ + 1,
                                        !.hooks = @ + Hooks(IF again THEN 2 ELSE 1)]
              /\ Emit(<< <<"status", IF v.verified THEN "complete" ELSE "verification",
                           "on_verification_complete", attempt_num>> >>
                      \o (IF again
                          THEN << <<"thought", "verification", "on_attempt_failed", attempt_num>> >>
                          ELSE <<>>))
              /\ verification' = [verified |-> v.verified, output |-> v.output,
                                  new_error |-> v.new_error, attempt |-> attempt_num,
                                  orig |-> original_error,
                                  exec |-> inp.ex, ran |-> r.ran, killed |-> r.killed]
              /\ all_attempts' = Append(all_attempts,
                    [attempt_number |-> attempt_num, ai_agent |-> fix_result.ai_agent,
                     verification_result |-> IF v.verified THEN "PASSED" ELSE "FAILED",
                     fixed_code |-> fix_result.fixed_code])
              /\ IF v.verified
                 THEN /\ final_result' = [success |-> TRUE, final_fix |-> fix_result.fixed_code,
                                          total_attempts |-> attempt_num, fallback |-> FALSE]
                      /\ pc' = "finish"
                 ELSE /\ pc' = "loop"
                      /\ UNCHANGED final_result
    /\ UNCHANGED <<config, attempt_num, fix_result>>

\* Finish that attaches a fallback response whether or not the handler is enabled
FinishFallbackAlways ==
    /\ At("finish")
    /\ final_result' = IF final_result # None THEN final_result
                       ELSE [success |-> FALSE, final_fix |-> NoFix,
                             total_attempts |-> Len(all_attempts),
                             fallback |-> TRUE,
                             fallback_response |->
                                 generate_fallback_response(original_error, TaskSnippet,
                                     TaskBugId, Len(all_attempts), all_attempts, now)]
    /\ Emit(IF final_result'.success THEN << <<"result", "complete">> >>
            ELSE IF final_result'.fallback
                 THEN << <<"status", "fallback">>, <<"result", "fallback">> >>
            ELSE << <<"result", "failed">> >>)
    /\ pc' = "done"
    /\ UNCHANGED <<config, sandboxVars, attempt_num, all_attempts, fix_result,
                   verification, calls>>

\* Finish that attaches the fallback response in silent mode only
FinishFallbackSilentOnly ==
    /\ At("finish")
    /\ final_result' = IF final_result # None THEN final_result
                       ELSE [success |-> FALSE, final_fix |-> NoFix,
                             total_attempts |-> Len(all_attempts),
                             fallback |-> fallback_enabled /\ mode = "silent",
                             fallback_response |->
                                 IF fallback_enabled /\ mode = "silent"
                                 THEN generate_fallback_response(original_error, TaskSnippet,
                                          TaskBugId, Len(all_attempts), all_attempts, now)
                                 ELSE None]
    /\ Emit(IF final_result'.success THEN << <<"result", "complete">> >>
            ELSE IF final_result'.fallback
                 THEN << <<"status", "fallback">>, <<"result", "fallback">> >>
            ELSE << <<"result", "failed">> >>)
    /\ pc' = "done"
    /\ UNCHANGED <<config, sandboxVars, attempt_num, all_attempts, fix_result,
                   verification, calls>>

\* after the loop: `if not final_result` builds the failure Outcome, with the
\* fallback response when the handler is enabled; then `yield final_result`
\* stream_thought_process then yields the result event, after a status event when
\* the Outcome carries a fallback response
Finish ==
    /\ At("finish")
    /\ final_result' = IF final_result # None THEN final_result
                       ELSE [success |-> FALSE, final_fix |-> NoFix,
                             total_attempts |-> Len(all_attempts),
                             fallback |-> fallback_enabled,
                             fallback_response |->
                                 IF fallback_enabled
                                 THEN generate_fallback_response(original_error, TaskSnippet,
                                          TaskBugId, Len(all_attempts), all_attempts, now)
                                 ELSE None]
    /\ Emit(IF final_result'.success THEN << <<"result", "complete">> >>
            ELSE IF final_result'.fallback
                 THEN << <<"status", "fallback">>, <<"result", "fallback">> >>
            ELSE << <<"result", "failed">> >>)
    /\ pc' = "done"
    /\ UNCHANGED <<config, sandboxVars, attempt_num, all_attempts, fix_result,
                   verification, calls>>

\* ------------------------------------------------------------ thought_stream_websocket
\* The handler forwards each event with websocket.send_json; when the client has
\* gone the call raises, the handler logs, closes the database session and returns.
\* The generator is left where it last yielded.
Disconnect ==
    /\ Observed
    /\ observer = "connected"
    /\ pc \in {"provision", "diagnostics", "loop", "analyze", "verify", "done"}
    /\ observer' = "gone"
    /\ UNCHANGED <<pc, config, sandboxVars, loopVars, events>>

\* require_approval and a success result: the approval request is sent and
\* receive_json is awaited for at most 60 s; the client approves, answers anything
\* else, stays silent, or disconnects
ApprovalWait ==
    /\ Observed
    /\ At("done")
    /\ final_result.success
    /\ observer' \in {"approved", "rejected", "timed_out", "gone"}
    /\ UNCHANGED <<pc, config, sandboxVars, loopVars, events>>

\* ------------------------------------------------------------ direct use
\* The methods of the agent's Sandbox and verify_fix are also called on their own
\* (the /verify endpoint, the sandbox tests): a second specification explores any
\* sequence of at most MaxCalls such calls on one agent.
InitSandbox ==
    /\ pc = "direct"
    /\ mode = "silent"
    /\ max_attempts = 1
    /\ primary_provider = "real"
    /\ secondary_provider = "none"
    /\ fallback_enabled = FALSE
    /\ original_error = NoText
    /\ SandboxInit(Manifests, TRUE)
    /\ project_path = Proj
    /\ ProcessInit
    /\ LoopInit

DirectCalls == Len(builds) + calls.run

\* Sandbox.build_image()
BuildImageCall ==
    /\ pc = "direct"
    /\ DirectCalls < MaxCalls
    /\ \E lookup \in {"answers", "raises"}, build_ok \in BOOLEAN : DoBuild(lookup, build_ok)
    /\ UNCHANGED <<pc, config, loopVars, streamVars>>

\* verify_fix(fixed_code, original_error): run_code and the verdict
VerifyFixCall ==
    /\ pc = "direct"
    /\ DirectCalls < MaxCalls
    /\ \E inp \in RunInputs, orig \in OrigErrors :
          LET r == run_code(inp)
              v == VerifyFix(r.result, orig)
          IN  /\ ApplyRun(r)
              /\ verification' = [verified |-> v.verified, output |-> v.output,
                                  new_error |-> v.new_error, attempt |-> 0,
                                  orig |-> orig,
                                  exec |-> inp.ex, ran |-> r.ran, killed |-> r.killed]
    /\ calls' = [calls EXCEPT !.verify = @ + 1, !.run = @ + 1]
    /\ UNCHANGED <<pc, config, attempt_num, all_attempts, fix_result, final_result,
                   streamVars>>

NextSandbox ==
    \/ BuildImageCall
    \/ VerifyFixCall

SpecSandbox == InitSandbox /\ [][NextSandbox]_vars

\* ------------------------------------------------------------ volumes
\* run_code called on a Sandbox whose project declares volumes in .exorcist.yaml
InitVolumes ==
    /\ pc = "volumes"
    /\ mode = "silent"
    /\ max_attempts = 1
    /\ primary_provider = "real"
    /\ secondary_provider = "none"
    /\ fallback_enabled = FALSE
    /\ original_error = NoText
    /\ SandboxInit(VolumeManifests, FALSE)
    /\ project_path \in {Proj, Srv}
    /\ ProcessInit
    /\ LoopInit

\* Sandbox.run_code(code, language)
RunCodeCall ==
    /\ pc = "volumes"
    /\ calls.run < MaxCalls
    /\ \E inp \in RunInputs : ApplyRun(run_code(inp))
    /\ calls' = [calls EXCEPT !.run = @ + 1]
    /\ UNCHANGED <<pc, config, attempt_num, all_attempts, fix_result, verification,
                   final_result, streamVars>>

NextVolumes == RunCodeCall

SpecVolumes == InitVolumes /\ [][NextVolumes]_vars

\* ------------------------------------------------------------ construction
\* project_path arguments of Sandbox(...) and BugExorcistAgent(...)
RequestedPaths == { Abs(Proj), Abs(ProjOld), Abs(Etc), Abs(ProjExt),
                    Abs(<< <<"srv">>, <<"missing">> >>), Rel(<< Dot >>) }

\* the first try block of Sandbox.__init__: refused (the ValueError raised inside
\* it, which its own except clause handles) and the project_path it settles on
validated_path(requested) ==
    LET resolved_path == resolve(<<>>, join(env.cwd, requested))
        root_dir == resolve(<<>>, env.allowed_root)
        refused == \/ resolved_path \notin Dirs
                   \/ env.has_allowed_root /\ ~IsInside(root_dir, resolved_path)
    IN  [refused |-> refused,
         project_path |-> IF refused THEN env.cwd ELSE resolved_path]

\* SandboxManifest.from_yaml: of the directories, the project has a .exorcist.yaml
ManifestAt(path) ==
    IF path = Proj THEN [setup |-> 1, services |-> 1, volumes |-> {}]
    ELSE [setup |-> 0, services |-> 0, volumes |-> {}]

\* Sandbox.__init__(project_path)
SandboxConstruct(requested) ==
    \E reachable \in BOOLEAN, net_ok \in BOOLEAN :
        LET v == validated_path(requested)
            session_id == SessionId(now)
            m == ManifestAt(v.project_path)
        IN  /\ reachable \/ net_ok
            /\ project_path' = v.project_path
            /\ use_mock' = ~reachable
            /\ sidecar_containers' = <<>>
            /\ network' = (reachable /\ net_ok)
            /\ image' = DefaultImage
            /\ manifest' = m
            /\ engine' = [engine EXCEPT !.net = reachable /\ net_ok]
            /\ sessions' = Append(sessions, [session_id |-> session_id,
                                             refused |-> v.refused,
                                             project_path |-> v.project_path])
            /\ UNCHANGED <<volumes, builds>>

\* _init_provider(agent_type): the chat model, a MockLLM, or ValueError
_init_provider(usable, allow_mock) ==
    IF usable THEN "real" ELSE IF allow_mock THEN "mock" ELSE "raises"

\* the process before any Sandbox or agent exists; the Sandbox fields are those the
\* first constructor call overwrites
InitSetup ==
    /\ pc = "setup"
    /\ mode = "silent"
    /\ max_attempts = 1
    /\ primary_provider = "none"
    /\ secondary_provider = "none"
    /\ fallback_enabled = FALSE
    /\ allow_mock_sandbox = FALSE
    /\ original_error = NoText
    /\ manifest = [setup |-> 0, services |-> 0, volumes |-> {}]
    /\ use_mock = FALSE
    /\ env \in { [has_allowed_root |-> h, allowed_root |-> r, cwd |-> c] :
                    h \in BOOLEAN, r \in {Slash, Srv, Proj}, c \in {App, Srv} }
    /\ env.has_allowed_root = (env.allowed_root # Slash)
    /\ project_path = env.cwd
    /\ now = 0
    /\ sessions = <<>>
    /\ agent = [state |-> "none", primary_usable |-> FALSE, secondary_usable |-> FALSE,
                allow_mock_llm |-> FALSE]
    /\ network = FALSE
    /\ sidecar_containers = <<>>
    /\ image = DefaultImage
    /\ volumes = {}
    /\ engine = [net |-> FALSE, sidecars |-> {}, exec |-> FALSE, images |-> {}]
    /\ builds = <<>>
    /\ script = <<>>
    /\ returned = <<>>
    /\ LoopInit

\* time passes
Tick ==
    /\ pc \in {"setup", "done"}
    /\ now < MaxTicks
    /\ now' = now + 1
    /\ UNCHANGED <<pc, mode, max_attempts, primary_provider, secondary_provider,
                   fallback_enabled, allow_mock_sandbox, original_error, manifest,
                   use_mock, project_path, env, sessions, agent, script, returned, sandboxVars,
                   loopVars, streamVars>>

\* Sandbox(project_path=...)
NewSandbox ==
    /\ pc = "setup"
    /\ Len(sessions) < MaxSessions
    /\ \E requested \in RequestedPaths : SandboxConstruct(requested)
    /\ UNCHANGED <<pc, mode, max_attempts, primary_provider, secondary_provider,
                   fallback_enabled, allow_mock_sandbox, original_error, env, now,
                   agent, script, returned, loopVars, streamVars>>

\* BugExorcistAgent(bug_id, project_path=...): both providers, then the Sandbox
NewAgent ==
    /\ pc = "setup"
    /\ Len(sessions) < MaxSessions
    /\ \E primary_usable \in BOOLEAN, secondary_usable \in BOOLEAN, allow_mock \in BOOLEAN :
          LET primary == _init_provider(primary_usable, allow_mock)
              secondary == _init_provider(secondary_usable, allow_mock)
              raised == primary = "raises" \/ secondary = "raises"
          IN  /\ agent' = [state |-> IF raised THEN "raised" ELSE "constructed",
                           primary_usable |-> primary_usable,
                           secondary_usable |-> secondary_usable,
                           allow_mock_llm |-> allow_mock]
              /\ IF raised
                 THEN UNCHANGED <<primary_provider, secondary_provider, manifest, use_mock,
                                  project_path, sessions, sandboxVars>>
                 ELSE /\ primary_provider' = primary
                      /\ secondary_provider' = secondary
                      /\ \E requested \in RequestedPaths : SandboxConstruct(requested)
    /\ UNCHANGED <<pc, mode, max_attempts, fallback_enabled, allow_mock_sandbox,
                   original_error, env, now, script, returned, loopVars, streamVars>>

NextSetup ==
    \/ Tick
    \/ NewSandbox
    \/ NewAgent

SpecSetup == InitSetup /\ [][NextSetup]_vars

\* ------------------------------------------------------------ the task


\* ------------------------------------------------------------ command selection
\* A language identifier is a sequence of chunks of text; str.lower() maps each
\* chunk to its lower-case form.
MaxChunks == 2
MaxCommandCalls == 1
LowerChunks == {"python", "javascript", "nodejs", "go", "-test", "rust", "cargo", "npm",
                "bash"}
UpperChunks == {"GO", "-Test", "Bash"}
lower_chunk(c) ==
    CASE c = "GO" -> "go"
      [] c = "-Test" -> "-test"
      [] c = "Bash" -> "bash"
      [] OTHER -> c
lower(language) == [i \in 1..Len(language) |-> lower_chunk(language[i])]
Languages == UNION { [1..n -> LowerChunks \cup UpperChunks] : n \in 1..MaxChunks }

\* the `commands` dict of run_code
PythonCommand == <<"/bin/sh", "-c", "python3 -c \"import sys; exec(sys.stdin.read())\"">>
SupportedLanguages == { <<"python">>, <<"javascript">>, <<"nodejs">>, <<"go">>,
                        <<"go", "-test">>, <<"rust">>, <<"cargo", "-test">>,
                        <<"npm", "-test">>, <<"bash">> }
commands ==
    [k \in SupportedLanguages |->
        CASE k = <<"python">> -> PythonCommand
          [] k = <<"javascript">> -> <<"/bin/sh", "-c", "node -e \"$(cat)\"">>
          [] k = <<"nodejs">> -> <<"/bin/sh", "-c", "node -e \"$(cat)\"">>
          [] k = <<"go">> -> <<"/bin/sh", "-c", "cat > main.go && go run main.go">>
          [] k = <<"go", "-test">> -> <<"/bin/sh", "-c", "cat > main_test.go && go test -v">>
          [] k = <<"rust">> ->
                <<"/bin/sh", "-c", "cat > main.rs && rustc main.rs -o main && ./main">>
          [] k = <<"cargo", "-test">> -> <<"/bin/sh", "-c", "cargo test">>
          [] k = <<"npm", "-test">> ->
                <<"/bin/sh", "-c", "cat > test.js && npm test -- --test-file=test.js">>
          [] k = <<"bash">> -> <<"/bin/bash", "-c", "$(cat)">>]

\* command selection that looks the identifier up as it was given
command_for_CaseSensitive(language) ==
    IF language \in DOMAIN commands THEN commands[language] ELSE commands[<<"python">>]

\* `command = commands.get(language.lower(), commands["python"])`
command_for(language) ==
    IF lower(language) \in DOMAIN commands THEN commands[lower(language)]
    ELSE commands[<<"python">>]

InitLanguages ==
    /\ pc = "languages"
    /\ mode = "silent"
    /\ max_attempts = 1
    /\ primary_provider = "real"
    /\ secondary_provider = "none"
    /\ fallback_enabled = FALSE
    /\ original_error = NoText
    /\ SandboxInit({[setup |-> 0, services |-> 0, volumes |-> {}]}, FALSE)
    /\ ~use_mock
    /\ project_path = Proj
    /\ ProcessInit
    /\ LoopInit

\* the command selection of Sandbox.run_code(code, language) on the engine path
CommandCall ==
    /\ pc = "languages"
    /\ Len(returned) < MaxCommandCalls
    /\ \E language \in Languages :
          returned' = Append(returned, [call |-> "run_code.command",
                                        args |-> <<language>>,
                                        value |-> command_for(language)])
    /\ UNCHANGED <<pc, mode, max_attempts, primary_provider, secondary_provider,
                   fallback_enabled, allow_mock_sandbox, original_error, manifest,
                   use_mock, project_path, env, now, sessions, agent, script, sandboxVars,
                   loopVars, streamVars>>

NextLanguages == CommandCall

SpecLanguages == InitLanguages /\ [][NextLanguages]_vars

\* ------------------------------------------------------------ fallback guidance
\* A silent one-attempt task on a real engine whose error message is any short
\* text over catalog-name fragments, followed by direct calls of the handler
MaxFragments == 2
MaxFallbackCalls == 2
Fragments == {"Index", "Key", ErrorMark}
Messages ==
    UNION { [1..n -> Fragments] : n \in 1..MaxFragments }
    \cup { <<"Key", ErrorMark, ": Index", "Index", ErrorMark>>,
           <<"Index", ErrorMark, "Key", ErrorMark>>,
           <<"Import", ErrorMark, "Name", ErrorMark>>,
           <<"ZeroDivision", ErrorMark>>, <<"panic">> }

InitFallback ==
    /\ pc = "idle"
    /\ mode = "silent"
    /\ max_attempts = 1
    /\ primary_provider = "real"
    /\ secondary_provider = "none"
    /\ fallback_enabled \in BOOLEAN
    /\ original_error \in Messages
    /\ SandboxInit({[setup |-> 0, services |-> 0, volumes |-> {}]}, FALSE)
    /\ ~use_mock
    /\ ~network
    /\ project_path = Proj
    /\ ProcessInit
    /\ LoopInit

\* fallback_handler.identify_error_type(error_message), called directly
IdentifyCall ==
    /\ pc = "done"
    /\ Len(returned) < MaxFallbackCalls
    /\ returned' = Append(returned, [call |-> "identify_error_type",
                                     args |-> <<original_error>>,
                                     value |-> identify_error_type(original_error)])
    /\ UNCHANGED <<pc, mode, max_attempts, primary_provider, secondary_provider,
                   fallback_enabled, allow_mock_sandbox, original_error, manifest,
                   use_mock, project_path, env, now, sessions, agent, script, sandboxVars,
                   loopVars, streamVars>>

\* fallback_handler.generate_fallback_response(...), called directly with the
\* arguments of the task
FallbackCall ==
    /\ pc = "done"
    /\ Len(returned) < MaxFallbackCalls
    /\ \E code_snippet \in Snippets :
          returned' = Append(returned,
              [call |-> "generate_fallback_response",
               args |-> <<original_error, code_snippet, TaskBugId, all_attempts>>,
               value |-> generate_fallback_response(original_error, code_snippet, TaskBugId,
                             Len(all_attempts), all_attempts, now)])
    /\ UNCHANGED <<pc, mode, max_attempts, primary_provider, secondary_provider,
                   fallback_enabled, allow_mock_sandbox, original_error, manifest,
                   use_mock, project_path, env, now, sessions, agent, script, sandboxVars,
                   loopVars, streamVars>>

NextFallback ==
    \/ StartTask
    \/ Provision
    \/ LoopHead
    \/ Analyze
    \/ Verify
    \/ Finish
    \/ IdentifyCall
    \/ FallbackCall
    \/ Tick

SpecFallback == InitFallback /\ [][NextFallback]_vars

Next ==
    \/ StartTask
    \/ Provision
    \/ Diagnostics
    \/ LoopHead
    \/ Analyze
    \/ Verify
    \/ Finish

Spec == Init /\ [][Next]_vars

\* an observed task driven by thought_stream_websocket, whose client may go away
InitSession == Init /\ Observed

NextSession ==
    \/ Next
    \/ Disconnect
    \/ ApprovalWait

SpecSession == InitSession /\ [][NextSession]_vars


\* ------------------------------------------------------------ hooks that raise
\* _execute_retry_logic takes its four hooks from the caller and awaits them inside
\* the try block of the loop body.  Here on_verification_complete may raise.
MaxHookAttempts == 2

InitHooks ==
    /\ pc = "idle"
    /\ mode = "observed"
    /\ max_attempts \in 1..MaxHookAttempts
    /\ primary_provider = "real"
    /\ secondary_provider = "none"
    /\ fallback_enabled \in BOOLEAN
    /\ original_error = <<"ZeroDivision", ErrorMark>>
    /\ SandboxInit({[setup |-> 0, services |-> 0, volumes |-> {}]}, FALSE)
    /\ project_path = Proj
    /\ ProcessInit
    /\ LoopInit

\* verify_fix returns, the record is appended, on_verification_complete raises:
\* the except clause appends an ERROR record, calls on_attempt_failed when another
\* attempt is allowed, and breaks otherwise
VerifyHookRaises ==
    /\ At("verify")
    /\ \E inp \in RunInputs :
          LET r == run_code(inp)
              v == VerifyFix(r.result, original_error)
              again == attempt_num < max_attempts
          IN  /\ ApplyRun(r)
              /\ calls' = [calls EXCEPT !.verify = @ + 1, !.run = @ + 1,
                                        !.hooks = @ + Hooks(IF again THEN 2 ELSE 1)]
              /\ Emit(IF again
                      THEN << <<"thought", "verification", "on_attempt_failed", attempt_num>> >>
                      ELSE <<>>)
              /\ verification' = [verified |-> v.verified, output |-> v.output,
                                  new_error |-> v.new_error, attempt |-> attempt_num,
                                  orig |-> original_error,
                                  exec |-> inp.ex, ran |-> r.ran, killed |-> r.killed]
              /\ all_attempts' = all_attempts \o
                    << [attempt_number |-> attempt_num, ai_agent |-> fix_result.ai_agent,
                        verification_result |-> IF v.verified THEN "PASSED" ELSE "FAILED",
                        fixed_code |-> fix_result.fixed_code],
                       ErrorRecord(attempt_num) >>
              /\ pc' = IF again THEN "loop" ELSE "finish"
    /\ UNCHANGED <<config, attempt_num, fix_result, final_result>>

NextHooks ==
    \/ StartTask
    \/ Provision
    \/ Diagnostics
    \/ LoopHead
    \/ Analyze
    \/ Verify
    \/ VerifyHookRaises
    \/ Finish

SpecHooks == InitHooks /\ [][NextHooks]_vars


\* ------------------------------------------------------------ requested max_attempts
\* The caller's max_attempts: analyze_and_fix_with_retry hands min(max_attempts, 5)
\* to the loop, stream_thought_process (called by the WebSocket handler with the
\* value of the request) hands it on as it is.
MaxRequested == 6
Min(a, b) == IF a <= b THEN a ELSE b

InitRequest ==
    /\ pc = "idle"
    /\ mode \in {"silent", "observed"}
    /\ \E requested \in 0..MaxRequested :
          max_attempts = IF mode = "silent" THEN Min(requested, MaxAttemptsCap)
                         ELSE requested
    /\ primary_provider = "real"
    /\ secondary_provider = "none"
    /\ fallback_enabled = FALSE
    /\ original_error = <<"ZeroDivision", ErrorMark>>
    /\ SandboxInit({[setup |-> 0, services |-> 0, volumes |-> {}]}, FALSE)
    /\ ~network
    /\ project_path = Proj
    /\ ProcessInit
    /\ LoopInit

SpecRequest == InitRequest /\ [][Next]_vars

\* ------------------------------------------------------------ attempt summary
\* The attempt summary of the fallback response, called with any history of up to
\* MaxHistory records as the loop body writes them.  Here a text is the sequence
\* of its characters.
MaxHistory == 3
MaxSummaryCalls == 1
ErrorLimit == 200
Chars(n) == [i \in 1..n |-> i % 10]
ErrorTexts == { Chars(1), Chars(ErrorLimit), Chars(ErrorLimit + 1) }

\* the record of an attempt that reached verification: "new_error" is
\* verification.get('new_error'), None when the fix was verified
VerifiedRecords(n) ==
    { [attempt_number |-> n, ai_agent |-> "real", fixed_code |-> <<"fix">>,
       verification_result |-> "PASSED", new_error |-> NoText] }
    \cup { [attempt_number |-> n, ai_agent |-> "real", fixed_code |-> <<"fix">>,
            verification_result |-> "FAILED", new_error |-> t] : t \in ErrorTexts }

\* the record the except clause writes: "error" is str(e), and there is no
\* "new_error" key
RaisedRecords(n) ==
    { [attempt_number |-> n, ai_agent |-> "real", verification_result |-> "ERROR",
       error |-> t] : t \in ErrorTexts }

Histories ==
    UNION { { h \in [1..n -> UNION { VerifiedRecords(i) \cup RaisedRecords(i) : i \in 1..n }] :
                \A i \in 1..n : h[i].attempt_number = i } : n \in 0..MaxHistory }

\* dict.get(key)
Get(attempt, key) == IF key \in DOMAIN attempt THEN attempt[key] ELSE NoText

\* text[:limit]
Truncate(text, limit) == SubSeq(text, 1, Min(Len(text), limit))

\* response["attempt_summary"]["attempts"]
attempt_summary(attempts) ==
    [i \in 1..Len(attempts) |->
        [attempt_number |-> attempts[i].attempt_number,
         result |-> attempts[i].verification_result,
         error |-> IF Get(attempts[i], "new_error") # NoText
                   THEN Truncate(Get(attempts[i], "new_error"), ErrorLimit)
                   ELSE None]]

InitSummary ==
    /\ pc = "summary"
    /\ mode = "silent"
    /\ max_attempts = MaxHistory
    /\ primary_provider = "real"
    /\ secondary_provider = "none"
    /\ fallback_enabled = TRUE
    /\ original_error = <<"ZeroDivision", ErrorMark>>
    /\ SandboxInit({[setup |-> 0, services |-> 0, volumes |-> {}]}, FALSE)
    /\ ~use_mock
    /\ project_path = Proj
    /\ ProcessInit
    /\ LoopInit

SummaryCall ==
    /\ pc = "summary"
    /\ Len(returned) < MaxSummaryCalls
    /\ \E history \in Histories :
          returned' = Append(returned, [call |-> "attempt_summary",
                                        args |-> <<history>>,
                                        value |-> attempt_summary(history)])
    /\ UNCHANGED <<pc, mode, max_attempts, primary_provider, secondary_provider,
                   fallback_enabled, allow_mock_sandbox, original_error, manifest,
                   use_mock, project_path, env, now, sessions, agent, script, sandboxVars,
                   loopVars, streamVars>>

NextSummary == SummaryCall

SpecSummary == InitSummary /\ [][NextSummary]_vars

\* ------------------------------------------------------------ sidecar readiness
\* verify_fix on a Sandbox whose manifest declares up to MaxSidecars services, with
\* the health status the engine reports for each started sidecar.
MaxSidecars == 2
MaxSidecarRuns == 1
HealthTimeout == 30

\* What container.reload() shows: State.Health.Status is 'starting' for the first
\* `starting` polls and from then on 'healthy', 'unhealthy' or absent, or the
\* reload raises
HealthStatuses == {"healthy", "unhealthy", "none", "raises"}
HealthFates == [starting : {0, 1, HealthTimeout - 1, HealthTimeout}, then : HealthStatuses]

\* Sandbox._wait_for_service_health(container), from its k-th poll on, elapsed
\* seconds after start_time: the while test, the reload, the three tests on the
\* status, and asyncio.sleep(1) while the status is 'starting'
RECURSIVE wait_for_service_health(_, _, _)
wait_for_service_health(health, k, elapsed) ==
    IF ~(elapsed < HealthTimeout)
    THEN [ready |-> FALSE, raised |-> FALSE, polls |-> k, elapsed |-> elapsed]
    ELSE IF k < health.starting
         THEN wait_for_service_health(health, k + 1, elapsed + 1)
    ELSE CASE health.then = "healthy" ->
                 [ready |-> TRUE, raised |-> FALSE, polls |-> k + 1, elapsed |-> elapsed]
           [] health.then = "unhealthy" ->
                 [ready |-> FALSE, raised |-> FALSE, polls |-> k + 1, elapsed |-> elapsed]
           [] health.then = "none" ->
                 [ready |-> TRUE, raised |-> FALSE, polls |-> k + 1, elapsed |-> elapsed + 2]
           [] health.then = "raises" ->
                 [ready |-> FALSE, raised |-> TRUE, polls |-> k + 1, elapsed |-> elapsed]

\* start_sidecars that gives up at the first sidecar that is not ready
RECURSIVE start_sidecars_ready_StopWhenUnready(_, _, _)
start_sidecars_ready_StopWhenUnready(i, sc, health) ==
    IF i > manifest.services THEN <<>>
    ELSE IF sc[i] = "start_fails" \/ i \in engine.sidecars
         THEN << [service |-> i, started |-> FALSE, waited |-> FALSE, ready |-> FALSE,
                  polls |-> 0, elapsed |-> 0] >>
              \o start_sidecars_ready_StopWhenUnready(i + 1, sc, health)
    ELSE LET w == wait_for_service_health(health[i], 0, 0)
         IN  << [service |-> i, started |-> TRUE, waited |-> ~w.raised, ready |-> w.ready,
                 polls |-> w.polls, elapsed |-> w.elapsed] >>
             \o (IF w.ready THEN start_sidecars_ready_StopWhenUnready(i + 1, sc, health)
                 ELSE <<>>)

\* start_sidecars, service by service from the i-th on: what the loop body does
\* with each declared service.  containers.run raises (started is false), or the
\* container is appended to sidecar_containers and its readiness awaited; an
\* exception of the wait is caught by the same except clause.  Either way the
\* loop goes on to the next service.
RECURSIVE start_sidecars_ready(_, _, _)
start_sidecars_ready(i, sc, health) ==
    IF i > manifest.services THEN <<>>
    ELSE IF sc[i] = "start_fails" \/ i \in engine.sidecars
         THEN << [service |-> i, started |-> FALSE, waited |-> FALSE, ready |-> FALSE,
                  polls |-> 0, elapsed |-> 0] >>
              \o start_sidecars_ready(i + 1, sc, health)
    ELSE LET w == wait_for_service_health(health[i], 0, 0)
         IN  << [service |-> i, started |-> TRUE, waited |-> ~w.raised, ready |-> w.ready,
                 polls |-> w.polls, elapsed |-> w.elapsed] >>
             \o start_sidecars_ready(i + 1, sc, health)

SidecarManifests == { [setup |-> 0, services |-> n, volumes |-> {}] : n \in 1..MaxSidecars }

InitSidecars ==
    /\ pc = "sidecars"
    /\ mode = "silent"
    /\ max_attempts = 1
    /\ primary_provider = "real"
    /\ secondary_provider = "none"
    /\ fallback_enabled = FALSE
    /\ original_error = <<"ZeroDivision", ErrorMark>>
    /\ SandboxInit(SidecarManifests, FALSE)
    /\ project_path = Proj
    /\ ProcessInit
    /\ LoopInit

\* verify_fix(fixed_code, original_error): run_code with its start_sidecars, and
\* the verdict.  The containers of the call are removed without error.
VerifyWithSidecars ==
    /\ pc = "sidecars"
    /\ calls.run < MaxSidecarRuns
    /\ \E inp \in { x \in RunInputs : x.crm /\ x.nrm },
          health \in [1..manifest.services -> HealthFates] :
          LET r == run_code(inp)
              v == VerifyFix(r.result, original_error)
          IN  /\ ApplyRun(r)
              /\ verification' = [verified |-> v.verified, output |-> v.output,
                                  new_error |-> v.new_error, attempt |-> 0,
                                  orig |-> original_error,
                                  exec |-> inp.ex, ran |-> r.ran, killed |-> r.killed]
              /\ returned' = Append(returned,
                    [call |-> "start_sidecars", args |-> <<inp.sc, health>>,
                     value |-> IF use_mock THEN <<>>
                               ELSE start_sidecars_ready(1, inp.sc, health),
                     started |-> r.started])
    /\ calls' = [calls EXCEPT !.verify = @ + 1, !.run = @ + 1]
    /\ UNCHANGED <<pc, mode, max_attempts, primary_provider, secondary_provider,
                   fallback_enabled, allow_mock_sandbox, original_error, manifest,
                   use_mock, project_path, env, now, sessions, agent, script,
                   attempt_num, all_attempts, fix_result, final_result, streamVars>>

NextSidecars == VerifyWithSidecars

SpecSidecars == InitSidecars /\ [][NextSidecars]_vars

\* ------------------------------------------------------------ approval
\* thought_stream_websocket with REQUIRE_APPROVAL set.  `returned` is the log of
\* what the handler does once it has forwarded a success result: the rows it
\* writes with crud.update_session_approval, the messages it sends, the answer
\* of receive_json, and the call of apply_fix_to_repo.
Logged(call, args, value) == [call |-> call, args |-> args, value |-> value]
Marked(is_approved) == Logged("update_session_approval", <<is_approved>>, "done")
Sent(stage, ok) == Logged("send_json", <<stage>>, IF ok THEN "sent" ELSE "raised")

\* What the 60 s wait for receive_json ends with: a message whose action is
\* "approve", any other message, a message that is no JSON object (its .get
\* raises), asyncio.TimeoutError, or WebSocketDisconnect
Answers == {"approve", "reject", "malformed", "timeout", "disconnect"}

\* the approval steps in which a timeout leaves the session row as it is
approval_steps_TimeoutUnmarked(answer, can_apply, sends) ==
    CASE answer = "approve" ->
            IF sends = 0 THEN << Sent("applying_fix", FALSE), Marked(-1) >>
            ELSE IF ~can_apply THEN << Sent("applying_fix", TRUE), Marked(1) >>
            ELSE IF sends = 1
                 THEN << Sent("applying_fix", TRUE), Logged("apply_fix_to_repo", <<>>, "done"),
                         Sent("applying_fix", FALSE), Marked(-1) >>
            ELSE << Sent("applying_fix", TRUE), Logged("apply_fix_to_repo", <<>>, "done"),
                    Sent("applying_fix", TRUE), Marked(1) >>
      [] answer = "reject" -> << Sent("rejected", sends > 0), Marked(-1) >>
      [] answer = "malformed" -> << Marked(-1) >>
      [] answer = "timeout" -> << Sent("rejected", sends > 0) >>
      [] answer = "disconnect" -> << Marked(-1) >>

\* The try block around the wait, after receive_json has ended with answer.
\* can_apply: repo_path, file_path and the fixed code are given and the paths are
\* valid; sends: how many of the following send_json calls succeed before the
\* client is gone.  A send_json that raises takes the handler to one of the
\* except clauses, all of which mark the session rejected.
approval_steps(answer, can_apply, sends) ==
    CASE answer = "approve" ->
            IF sends = 0 THEN << Sent("applying_fix", FALSE), Marked(-1) >>
            ELSE IF ~can_apply THEN << Sent("applying_fix", TRUE), Marked(1) >>
            ELSE IF sends = 1
                 THEN << Sent("applying_fix", TRUE), Logged("apply_fix_to_repo", <<>>, "done"),
                         Sent("applying_fix", FALSE), Marked(-1) >>
            ELSE << Sent("applying_fix", TRUE), Logged("apply_fix_to_repo", <<>>, "done"),
                    Sent("applying_fix", TRUE), Marked(1) >>
      [] answer = "reject" -> << Sent("rejected", sends > 0), Marked(-1) >>
      [] answer = "malformed" -> << Marked(-1) >>
      [] answer = "timeout" -> << Marked(-1), Sent("rejected", sends > 0) >>
      [] answer = "disconnect" -> << Marked(-1) >>

InitApproval == InitHooks

\* the result event is a success: the session is marked pending when there is
\* fixed code, and the APPROVAL_REQUEST is sent
RequestApproval ==
    /\ Observed
    /\ At("done")
    /\ final_result.success
    /\ \E can_apply \in BOOLEAN, sent \in BOOLEAN :
          /\ returned' = (IF final_result.final_fix # NoFix THEN << Marked(0) >> ELSE <<>>)
                         \o << Logged("send_json", <<"awaiting_approval", can_apply>>,
                                      IF sent THEN "sent" ELSE "raised") >>
          /\ pc' = IF sent THEN "awaiting_approval" ELSE "closed"
          /\ observer' = IF sent THEN observer ELSE "gone"
    /\ UNCHANGED <<mode, max_attempts, primary_provider, secondary_provider,
                   fallback_enabled, allow_mock_sandbox, original_error, manifest,
                   use_mock, project_path, env, now, sessions, agent, script, sandboxVars,
                   loopVars, events>>

\* asyncio.wait_for(websocket.receive_json(), timeout=60) ends, and the handler
\* runs to its next break or return
ApprovalAnswer ==
    /\ At("awaiting_approval")
    /\ \E answer \in Answers, sends \in 0..2 :
          LET can_apply == returned[Len(returned)].args[2]
              \* every send_json of the branch succeeded
              heard == \/ answer \in {"reject", "timeout"} /\ sends > 0
                       \/ answer = "approve" /\ sends > (IF can_apply THEN 1 ELSE 0)
          IN  /\ returned' = returned \o << Logged("receive_json", <<>>, answer) >>
                                      \o approval_steps(answer, can_apply, sends)
              /\ observer' = IF ~heard THEN "gone"
                             ELSE CASE answer = "approve" -> "approved"
                                    [] answer = "reject" -> "rejected"
                                    [] answer = "timeout" -> "timed_out"
    /\ pc' = "closed"
    /\ UNCHANGED <<mode, max_attempts, primary_provider, secondary_provider,
                   fallback_enabled, allow_mock_sandbox, original_error, manifest,
                   use_mock, project_path, env, now, sessions, agent, script, sandboxVars,
                   loopVars, events>>

NextApproval ==
    \/ Next
    \/ Disconnect
    \/ RequestApproval
    \/ ApprovalAnswer

SpecApproval == InitApproval /\ [][NextApproval]_vars

\* ------------------------------------------------------------ concurrent builds
\* MaxBuilders tasks on the same project, each with its own Sandbox, call
\* build_image at the same time.  build_image takes no lock: between the cache
\* lookup of one task and its build, the other task may do either step.  The
\* Sandbox objects are in `sessions`, each with its image field, the position of
\* its build_image call (at), the value returned (ret), whether it invoked the
\* engine build (built), whether the engine failed it (engine_failed), and the
\* image its execution container was created from (ran_on).
MaxBuilders == 2
NoImage == 0 - 1

\* the first half of build_image: the tag, and client.images.get(tag)
build_image_lookup(s, images, lookup) ==
    LET custom_image_tag == ImageTag(generate_dynamic_dockerfile(manifest, s.image))
    IN  IF lookup = "raises" THEN [s EXCEPT !.at = "raised", !.engine_failed = TRUE]
        ELSE IF custom_image_tag \in images
             THEN [s EXCEPT !.at = "built", !.image = custom_image_tag,
                            !.ret = custom_image_tag]
        ELSE [s EXCEPT !.at = "build"]

\* a build that the engine refuses when the tag already names an image
build_image_build_TagTaken(s, images, build_ok) ==
    LET custom_image_tag == ImageTag(generate_dynamic_dockerfile(manifest, s.image))
    IN  IF build_ok /\ custom_image_tag \notin images
        THEN [s |-> [s EXCEPT !.at = "built", !.image = custom_image_tag,
                              !.ret = custom_image_tag, !.built = TRUE],
              images |-> images \cup {custom_image_tag}]
        ELSE [s |-> [s EXCEPT !.at = "built", !.ret = s.image, !.built = TRUE,
                              !.engine_failed = ~build_ok],
              images |-> images]

\* the second half of build_image: client.api.build(tag=custom_image_tag), which
\* names the new image by the tag whether or not the tag named one before
build_image_build(s, images, build_ok) ==
    LET custom_image_tag == ImageTag(generate_dynamic_dockerfile(manifest, s.image))
    IN  IF build_ok
        THEN [s |-> [s EXCEPT !.at = "built", !.image = custom_image_tag,
                              !.ret = custom_image_tag, !.built = TRUE],
              images |-> images \cup {custom_image_tag}]
        ELSE [s |-> [s EXCEPT !.at = "built", !.ret = s.image, !.built = TRUE,
                              !.engine_failed = ~build_ok],
              images |-> images]

InitBuilders ==
    /\ pc = "builders"
    /\ mode = "silent"
    /\ max_attempts = 1
    /\ primary_provider = "real"
    /\ secondary_provider = "none"
    /\ fallback_enabled = FALSE
    /\ original_error = NoText
    /\ SandboxInit(Manifests, TRUE)
    /\ ~use_mock
    /\ project_path = Proj
    /\ env = [has_allowed_root |-> FALSE, allowed_root |-> Slash, cwd |-> App]
    /\ now = 0
    /\ sessions = [i \in 1..MaxBuilders |->
                      [session_id |-> SessionId(0), refused |-> FALSE, project_path |-> Proj,
                       image |-> DefaultImage, at |-> "lookup", ret |-> NoImage,
                       built |-> FALSE, engine_failed |-> FALSE, ran_on |-> NoImage]]
    /\ agent = [state |-> "constructed", primary_usable |-> TRUE,
                secondary_usable |-> TRUE, allow_mock_llm |-> FALSE]
    /\ script = <<>>
    /\ returned = <<>>
    /\ LoopInit

\* a task reaches the cache lookup of its build_image call
LookupImage ==
    /\ pc = "builders"
    /\ \E i \in 1..Len(sessions), lookup \in {"answers", "raises"} :
          /\ sessions[i].at = "lookup"
          /\ sessions' = [sessions EXCEPT ![i] = build_image_lookup(@, engine.images, lookup)]
    /\ UNCHANGED <<pc, mode, max_attempts, primary_provider, secondary_provider,
                   fallback_enabled, allow_mock_sandbox, original_error, manifest,
                   use_mock, project_path, env, now, agent, script, returned, sandboxVars,
                   loopVars, streamVars>>

\* a task whose lookup found nothing builds
BuildImage ==
    /\ pc = "builders"
    /\ \E i \in 1..Len(sessions), build_ok \in BOOLEAN :
          /\ sessions[i].at = "build"
          /\ LET b == build_image_build(sessions[i], engine.images, build_ok)
             IN  /\ sessions' = [sessions EXCEPT ![i] = b.s]
                 /\ engine' = [engine EXCEPT !.images = b.images]
    /\ UNCHANGED <<pc, mode, max_attempts, primary_provider, secondary_provider,
                   fallback_enabled, allow_mock_sandbox, original_error, manifest,
                   use_mock, project_path, env, now, agent, script, returned,
                   network, sidecar_containers, image, volumes, builds,
                   loopVars, streamVars>>

\* run_code of a task whose build_image has returned: containers.run(self.image)
ExecuteOnImage ==
    /\ pc = "builders"
    /\ \E i \in 1..Len(sessions) :
          /\ sessions[i].at = "built"
          /\ sessions' = [sessions EXCEPT ![i] = [@ EXCEPT !.at = "ran", !.ran_on = sessions[i].image]]
    /\ UNCHANGED <<pc, mode, max_attempts, primary_provider, secondary_provider,
                   fallback_enabled, allow_mock_sandbox, original_error, manifest,
                   use_mock, project_path, env, now, agent, script, returned, sandboxVars,
                   loopVars, streamVars>>

NextBuilders ==
    \/ LookupImage
    \/ BuildImage
    \/ ExecuteOnImage

SpecBuilders == InitBuilders /\ [][NextBuilders]_vars

\* ------------------------------------------------------------ _parse_ai_response
\* The response of the provider is split into lines.  A line is `text`, and when
\* it holds a code fence, the fence and what comes after it; text and after are
\* sequences of words, already stripped and lower-cased where the code does so.
MaxLines == 3
MaxParseCalls == 1
Colon == ":"
Line(text) == [text |-> text, fence |-> FALSE, after |-> <<>>]
FenceLine(text, after) == [text |-> text, fence |-> TRUE, after |-> after]
ResponseLines ==
    { Line(<<"x = 10">>), Line(<<"changes", "= []">>),
      Line(<<"root cause", Colon, "x undefined">>),
      FenceLine(<<>>, <<"python">>), FenceLine(<<>>, <<"python", "print(1)">>),
      FenceLine(<<>>, <<>>), FenceLine(<<"print(2)">>, <<>>) }
Responses_ai == UNION { [1..n -> ResponseLines] : n \in 0..MaxLines }
OriginalCode == << <<"original code">> >>

HasWord(text, w) == \E i \in 1..Len(text) : text[i] = w

\* what follows the first colon of the line: stripped_line.split(':', 1)[1].strip()
AfterColon(text) ==
    IF HasWord(text, Colon)
    THEN LET c == CHOOSE i \in 1..Len(text) :
                      text[i] = Colon /\ \A j \in 1..(i - 1) : text[j] # Colon
         IN  SubSeq(text, c + 1, Len(text))
    ELSE <<>>

\* the section a header line opens; the empty string when the line is no header
HeaderOf(text) ==
    IF HasWord(text, "root cause") THEN "root_cause"
    ELSE IF HasWord(text, "explanation") \/ HasWord(text, "changes") THEN "explanation"
    ELSE IF HasWord(text, "wrong with") \/ HasWord(text, "previous attempt")
         THEN "retry_analysis"
    ELSE ""

\* what is kept of the opening-fence line: the words after the language identifier
FenceContent(after) == IF Len(after) > 1 THEN Tail(after) ELSE <<>>

\* the lines appended to one of the four lists
Put(acc, section, line) ==
    IF section = "code" THEN [acc EXCEPT !.fixed_code_lines = Append(@, line)]
    ELSE IF section = "root_cause" THEN [acc EXCEPT !.root_cause_lines = Append(@, line)]
    ELSE IF section = "explanation" THEN [acc EXCEPT !.explanation_lines = Append(@, line)]
    ELSE IF section = "retry_analysis"
         THEN [acc EXCEPT !.retry_analysis_lines = Append(@, line)]
    ELSE acc

\* the body of `for line in lines`: fence transitions, then section headers, then
\* the action of the current state
parse_line(acc, line) ==
    IF line.fence
    THEN IF acc.current_state # "code"
         THEN LET opened == [acc EXCEPT !.current_state = "code"]
              IN  IF FenceContent(line.after) # <<>>
                  THEN Put(opened, "code", FenceContent(line.after))
                  ELSE opened
         ELSE LET closed == [acc EXCEPT !.current_state = ""]
              IN  IF line.text # <<>>
                  THEN [closed EXCEPT !.fixed_code_lines = Append(@, line.text)]
                  ELSE closed
    ELSE IF HeaderOf(line.text) # ""
         THEN LET headed == [acc EXCEPT !.current_state = HeaderOf(line.text)]
              IN  IF AfterColon(line.text) # <<>>
                  THEN Put(headed, HeaderOf(line.text), AfterColon(line.text))
                  ELSE headed
    ELSE Put(acc, acc.current_state, line.text)

RECURSIVE parse_lines(_, _, _)
parse_lines(lines, k, acc) ==
    IF k > Len(lines) THEN acc ELSE parse_lines(lines, k + 1, parse_line(acc, lines[k]))

\* BugExorcistAgent._parse_ai_response(ai_response, original_code)
parse_ai_response(lines, original_code) ==
    LET acc == parse_lines(lines, 1,
                   [current_state |-> "", root_cause_lines |-> <<>>,
                    fixed_code_lines |-> <<>>, explanation_lines |-> <<>>,
                    retry_analysis_lines |-> <<>>])
        fixed_code == IF acc.fixed_code_lines = <<>> THEN original_code
                      ELSE acc.fixed_code_lines
    IN  [root_cause |-> IF acc.root_cause_lines = <<>> THEN << <<"Analysis completed">> >>
                        ELSE acc.root_cause_lines,
         fixed_code |-> fixed_code,
         explanation |-> IF acc.explanation_lines = <<>> THEN << <<"Code has been fixed">> >>
                         ELSE acc.explanation_lines,
         confidence |-> IF fixed_code # <<>> /\ acc.root_cause_lines # <<>> THEN 85 ELSE 60,
         retry_analysis |-> acc.retry_analysis_lines]

InitParser ==
    /\ pc = "parser"
    /\ mode = "silent"
    /\ max_attempts = 1
    /\ primary_provider = "real"
    /\ secondary_provider = "none"
    /\ fallback_enabled = FALSE
    /\ original_error = NoText
    /\ SandboxInit({[setup |-> 0, services |-> 0, volumes |-> {}]}, FALSE)
    /\ ~use_mock
    /\ project_path = Proj
    /\ ProcessInit
    /\ LoopInit

ParseCall ==
    /\ pc = "parser"
    /\ Len(returned) < MaxParseCalls
    /\ \E ai_response \in Responses_ai :
          returned' = Append(returned, [call |-> "_parse_ai_response",
                                        args |-> <<ai_response, OriginalCode>>,
                                        value |-> parse_ai_response(ai_response, OriginalCode)])
    /\ UNCHANGED <<pc, mode, max_attempts, primary_provider, secondary_provider,
                   fallback_enabled, allow_mock_sandbox, original_error, manifest,
                   use_mock, project_path, env, now, sessions, agent, script, sandboxVars,
                   loopVars, streamVars>>

NextParser == ParseCall

SpecParser == InitParser /\ [][NextParser]_vars

\* ------------------------------------------------------------ sanitize_language
\* The language of a request, as thought_stream_websocket cleans it before it is
\* handed to the agent.  An identifier is spelt as a sequence of pieces chosen so
\* that each text the function searches for is a run of whole pieces.
MaxPieces == 3
MaxSanitizeCalls == 1
SafePieces == {"python", "java", "script", "js", "node", "go", "lang", "car", "rust",
               "ba", "sh", "ell", "npm", "-", "test", "cobol"}
UpperPieces == {"PYTHON", "Java", "Script"}
UnsafePieces == {" ", ";", "<"}
lower_piece(c) ==
    CASE c = "PYTHON" -> "python"
      [] c = "Java" -> "java"
      [] c = "Script" -> "script"
      [] OTHER -> c

\* SUPPORTED_LANGUAGES
SUPPORTED_LANGUAGES ==
    { <<"python">>, <<"java", "script">>, <<"node", "js">>, <<"go">>, <<"rust">>,
      <<"ba", "sh">>, <<"go", "-", "test">>, <<"car", "go", "-", "test">>,
      <<"npm", "-", "test">> }

\* the values of the "language" field of a request: a text; the empty sequence
\* is None or the empty string, which `not lang` treats alike
RequestLanguages ==
    UNION { [1..n -> SafePieces \cup UpperPieces \cup UnsafePieces] : n \in 0..MaxPieces }
    \cup SUPPORTED_LANGUAGES

\* re.sub(r'[^a-zA-Z0-9\-]', '', lang.lower().strip())
clean(lang) ==
    SelectSeq([i \in 1..Len(lang) |-> lower_piece(lang[i])], LAMBDA c : c \notin UnsafePieces)

\* sanitize_language that hands back what it does not recognise
sanitize_language_NoDefault(lang) ==
    IF lang = NoText THEN <<"python">>
    ELSE LET clean_lang == clean(lang)
         IN  IF clean_lang \in SUPPORTED_LANGUAGES THEN clean_lang
             ELSE IF clean_lang \in { <<"js">>, <<"java", "script">> }
                     \/ Contains(<<"java", "script">>, clean_lang) THEN <<"java", "script">>
             ELSE IF clean_lang \in { <<"node">>, <<"node", "js">> }
                     \/ Contains(<<"node">>, clean_lang) THEN <<"node", "js">>
             ELSE IF clean_lang \in { <<"go", "lang">>, <<"go">> }
                     \/ Contains(<<"go">>, clean_lang) THEN <<"go">>
             ELSE IF clean_lang \in { <<"sh">>, <<"ba", "sh">>, <<"sh", "ell">> }
                     \/ Contains(<<"ba", "sh">>, clean_lang) THEN <<"ba", "sh">>
             ELSE IF Contains(<<"npm">>, clean_lang) /\ Contains(<<"test">>, clean_lang)
                  THEN <<"npm", "-", "test">>
             ELSE IF Contains(<<"go">>, clean_lang) /\ Contains(<<"test">>, clean_lang)
                  THEN <<"go", "-", "test">>
             ELSE IF Contains(<<"car", "go">>, clean_lang) /\ Contains(<<"test">>, clean_lang)
                  THEN <<"car", "go", "-", "test">>
             ELSE clean_lang

\* sanitize_language(lang)
sanitize_language(lang) ==
    IF lang = NoText THEN <<"python">>
    ELSE LET clean_lang == clean(lang)
         IN  IF clean_lang \in SUPPORTED_LANGUAGES THEN clean_lang
             ELSE IF clean_lang \in { <<"js">>, <<"java", "script">> }
                     \/ Contains(<<"java", "script">>, clean_lang) THEN <<"java", "script">>
             ELSE IF clean_lang \in { <<"node">>, <<"node", "js">> }
                     \/ Contains(<<"node">>, clean_lang) THEN <<"node", "js">>
             ELSE IF clean_lang \in { <<"go", "lang">>, <<"go">> }
                     \/ Contains(<<"go">>, clean_lang) THEN <<"go">>
             ELSE IF clean_lang \in { <<"sh">>, <<"ba", "sh">>, <<"sh", "ell">> }
                     \/ Contains(<<"ba", "sh">>, clean_lang) THEN <<"ba", "sh">>
             ELSE IF Contains(<<"npm">>, clean_lang) /\ Contains(<<"test">>, clean_lang)
                  THEN <<"npm", "-", "test">>
             ELSE IF Contains(<<"go">>, clean_lang) /\ Contains(<<"test">>, clean_lang)
                  THEN <<"go", "-", "test">>
             ELSE IF Contains(<<"car", "go">>, clean_lang) /\ Contains(<<"test">>, clean_lang)
                  THEN <<"car", "go", "-", "test">>
             ELSE <<"python">>

\* the pieces a chunk of a command-table key is spelt with
RECURSIVE Spell(_)
Spell(language) ==
    IF language = <<>> THEN <<>>
    ELSE (CASE Head(language) = "javascript" -> <<"java", "script">>
            [] Head(language) = "nodejs" -> <<"node", "js">>
            [] Head(language) = "-test" -> <<"-", "test">>
            [] Head(language) = "cargo" -> <<"car", "go">>
            [] Head(language) = "bash" -> <<"ba", "sh">>
            [] OTHER -> << Head(language) >>)
         \o Spell(Tail(language))

InitSanitize ==
    /\ pc = "sanitize"
    /\ mode = "observed"
    /\ max_attempts = 1
    /\ primary_provider = "real"
    /\ secondary_provider = "none"
    /\ fallback_enabled = FALSE
    /\ original_error = NoText
    /\ SandboxInit({[setup |-> 0, services |-> 0, volumes |-> {}]}, FALSE)
    /\ ~use_mock
    /\ project_path = Proj
    /\ ProcessInit
    /\ LoopInit

\* language = sanitize_language(request_data.get("language", "python")); `again`
\* is the value of sanitizing the result once more
SanitizeCall ==
    /\ pc = "sanitize"
    /\ Len(returned) < MaxSanitizeCalls
    /\ \E lang \in RequestLanguages :
          returned' = Append(returned, [call |-> "sanitize_language",
                                        args |-> <<lang>>,
                                        value |-> sanitize_language(lang),
                                        again |-> sanitize_language(sanitize_language(lang))])
    /\ UNCHANGED <<pc, mode, max_attempts, primary_provider, secondary_provider,
                   fallback_enabled, allow_mock_sandbox, original_error, manifest,
                   use_mock, project_path, env, now, sessions, agent, script, sandboxVars,
                   loopVars, streamVars>>

NextSanitize == SanitizeCall

SpecSanitize == InitSanitize /\ [][NextSanitize]_vars

\* ------------------------------------------------------------ both paths, one task
\* The same task is given first to analyze_and_fix_with_retry, then to
\* stream_thought_process of an agent constructed the same way, and the engine and
\* the providers give the second run the answers they gave the first: script holds
\* the answer to the image build and, per attempt, the answers of the provider
\* calls (resp) and the fate of the execution container (ex).
MaxPairAttempts == 2
PairExecFates ==
    { f \in ExecFates : f.kind \in {"timeout", "exit"} /\ f.kill_ok /\ f.logs \in {NoText, <<"ok">>} }
Scripts(n) ==
    [build : [lookup : {"answers", "raises"}, build_ok : BOOLEAN],
     attempts : [1..n -> [resp : [1..2 -> Responses], ex : PairExecFates]]]

InitPair ==
    /\ pc = "idle"
    /\ mode = "silent"
    /\ max_attempts \in 1..MaxPairAttempts
    /\ primary_provider = "real"
    /\ secondary_provider \in ProviderKinds
    /\ fallback_enabled \in BOOLEAN
    /\ original_error = <<"ZeroDivision", ErrorMark>>
    /\ SandboxInit({[setup |-> 0, services |-> 0, volumes |-> {}]}, FALSE)
    /\ ~use_mock
    /\ project_path = Proj
    /\ env = [has_allowed_root |-> FALSE, allowed_root |-> Slash, cwd |-> App]
    /\ now = 0
    /\ sessions = << [session_id |-> SessionId(0), refused |-> FALSE, project_path |-> Proj] >>
    /\ agent = [state |-> "constructed", primary_usable |-> TRUE,
                secondary_usable |-> TRUE, allow_mock_llm |-> FALSE]
    /\ script \in Scripts(max_attempts)
    /\ returned = <<>>
    /\ LoopInit

\* build_image answers as the script says
PairProvision ==
    /\ Provision
    /\ LET b == build_image(script.build.lookup, script.build.build_ok)
       IN  builds'[Len(builds')] = [ret |-> b.ret, built |-> b.built, raised |-> b.raised,
                                    custom |-> b.custom]

\* the provider calls of the attempt answer as the script says
PairAnalyze ==
    /\ Analyze
    /\ LET a == analyze_error(all_attempts, UseSecondary(attempt_num),
                              script.attempts[attempt_num].resp, 0)
       IN  /\ (pc' = "verify") = ~a.raised
           /\ calls'.provider = calls.provider + a.invoked

\* the execution container of the attempt fares as the script says
PairVerify ==
    /\ Verify
    /\ verification'.exec = script.attempts[attempt_num].ex

\* analyze_and_fix_with_retry has returned or raised; an agent constructed the
\* same way (new Sandbox, new session network) gets the task through
\* stream_thought_process
Restart ==
    /\ mode = "silent"
    /\ pc \in {"done", "raised"}
    /\ returned = <<>>
    /\ returned' = << [call |-> "analyze_and_fix_with_retry",
                       args |-> <<original_error, max_attempts, script>>,
                       value |-> [outcome |-> final_result, all_attempts |-> all_attempts]] >>
    /\ mode' = "observed"
    /\ pc' = "idle"
    /\ sessions' = Append(sessions, [session_id |-> SessionId(now), refused |-> FALSE,
                                     project_path |-> project_path])
    /\ network' \in BOOLEAN
    /\ engine' = [net |-> network', sidecars |-> {}, exec |-> FALSE, images |-> {}]
    /\ sidecar_containers' = <<>>
    /\ image' = DefaultImage
    /\ builds' = <<>>
    /\ volumes' = {}
    /\ attempt_num' = 0
    /\ all_attempts' = <<>>
    /\ fix_result' = None
    /\ verification' = None
    /\ final_result' = None
    /\ calls' = [provider |-> 0, verify |-> 0, run |-> 0, hooks |-> 0]
    /\ events' = <<>>
    /\ observer' = "connected"
    /\ UNCHANGED <<max_attempts, primary_provider, secondary_provider, fallback_enabled,
                   allow_mock_sandbox, original_error, manifest, use_mock, project_path,
                   env, now, agent, script>>

NextPair ==
    \/ StartTask
    \/ PairProvision
    \/ Diagnostics
    \/ LoopHead
    \/ PairAnalyze
    \/ PairVerify
    \/ Finish
    \/ Restart

SpecPair == InitPair /\ [][NextPair]_vars

TaskEnded == pc \in {"done", "raised", "error_event"}

\* ============================================================ properties
LastAttempt == all_attempts[Len(all_attempts)]
Verified == verification # None /\ verification.verified

\* C1: one run of the attempt loop starts at most max_attempts attempts, and the
\* attempt_number values of the history, read in order, are exactly 1, 2, ..., k.
C1_AttemptNumbers ==
    /\ attempt_num <= max_attempts
    /\ Len(all_attempts) <= attempt_num
    /\ \A i \in 1..Len(all_attempts) : all_attempts[i].attempt_number = i

C1_Witness ==
    /\ pc = "done"
    /\ max_attempts = MaxAttemptsCap
    /\ Len(all_attempts) = MaxAttemptsCap

\* C2: once the verification of attempt i has returned verified = true, the Outcome
\* is success with total_attempts = i, and no further attempt is started: no step
\* after it invokes a provider, runs a verification or extends the history.
C2_VerifiedEndsLoop ==
    /\ [](Verified /\ verification.attempt > 0 =>
            /\ final_result # None
            /\ final_result.success
            /\ final_result.total_attempts = verification.attempt
            /\ Len(all_attempts) = verification.attempt
            /\ pc \in {"finish", "done"})
    /\ [][Verified /\ verification.attempt > 0 =>
            /\ attempt_num' = attempt_num
            /\ calls' = calls
            /\ all_attempts' = all_attempts
            /\ final_result' = final_result]_vars

C2_Witness ==
    /\ pc = "done"
    /\ Verified
    /\ final_result.success
    /\ final_result.total_attempts = 2
    /\ max_attempts > 2

\* C3: after an attempt whose provider call raised (an ERROR record) and that was not
\* the last allowed one, the next attempt invokes the provider again.
C3_ProviderInvokedAfterError ==
    [][(pc = "analyze" /\ all_attempts # <<>> /\ LastAttempt.verification_result = "ERROR")
          => calls'.provider > calls.provider]_vars

\* C4: a run with at least one configured provider ends by returning an Outcome;
\* no exception reaches the caller, whatever the providers and the sandbox do.
C4_AlwaysAnOutcome ==
    (TaskEnded /\ (primary_provider # "none" \/ secondary_provider # "none"))
        => (pc = "done" /\ final_result # None)

\* C5: when a task ends (Outcome or fatal error) the session network has been
\* removed and no sidecar container of the session is left.
C5_ReleasedAtTaskEnd ==
    TaskEnded => (~engine.net /\ engine.sidecars = {})

\* C6: after any run_code call has returned, the execution container, the sidecar
\* containers and the session network no longer exist, also when engine operations
\* (stop, remove) fail.
C6_NothingLeftAfterRun ==
    (calls.run > 0 /\ ~use_mock)
        => (~engine.exec /\ engine.sidecars = {} /\ ~engine.net)

\* C7: in mock mode (engine unreachable) verification returns verified = false with
\* the "Sandbox unavailable" reason unless ALLOW_MOCK_SANDBOX_VERIFICATION is set;
\* a verified = true that no real container run produced occurs only with the flag.
C7_NoSilentMockSuccess ==
    verification # None =>
        /\ use_mock => /\ verification.verified <=> allow_mock_sandbox
                       /\ ~allow_mock_sandbox => verification.new_error = UnavailableMsg
        /\ (verification.verified /\ ~verification.ran) => allow_mock_sandbox

C7_Witness ==
    /\ verification # None
    /\ use_mock
    /\ ~allow_mock_sandbox
    /\ ~verification.verified
    /\ verification.new_error = UnavailableMsg

\* the execution of the last verification exited with status 0 and its output does
\* not contain the original error text
CleanExit ==
    /\ verification # None
    /\ verification.ran
    /\ verification.exec.kind = "exit"
    /\ verification.exec.code = 0
    /\ ~(verification.orig # NoText /\ Contains(verification.orig, verification.exec.logs))

HasMarker(text) == Contains(<<ErrorMark>>, text) \/ Contains(<<TraceMark>>, text)

\* C8 as claimed: every candidate whose execution exits with status 0 and whose
\* output does not contain the original error text is verified.
C8_CleanExitVerified == CleanExit => verification.verified

\* C8 amended: a candidate whose execution exits with status 0 and whose output
\* contains neither the original error text nor "Error" nor "Traceback" is verified,
\* and an output with one of the two markers is not.
C8_CleanExitNoMarkerVerified ==
    CleanExit => (verification.verified <=> ~HasMarker(verification.exec.logs))

C8_Witness ==
    /\ CleanExit
    /\ verification.verified
    /\ verification.orig = NoText

\* the last verification ran into the 30 s ceiling of container.wait
TimedOut == verification # None /\ verification.exec.kind = "timeout" /\ verification.ran

C11_BindsInsideProjectRoot ==
    \A v \in volumes : IsInside(resolve(<<>>, project_path), resolve(<<>>, v.bind))

\* C12: with ALLOWED_REPO_ROOT configured, a requested project path that resolves
\* outside that root or is not an existing directory makes the construction of the
\* Sandbox fail: no Sandbox exists for a refused path, and the project_path of
\* every Sandbox is the allowed root or a descendant of it.
C12_OnlyInsideAllowedRoot ==
    env.has_allowed_root =>
        \A i \in 1..Len(sessions) :
            /\ ~sessions[i].refused
            /\ IsInside(resolve(<<>>, env.allowed_root), sessions[i].project_path)

\* C20: any two Sandbox objects, also two constructed at the same moment, have
\* different session ids, hence different network and sidecar container names.
C20_SessionIdsDiffer ==
    \A i, j \in 1..Len(sessions) :
        i # j => /\ sessions[i].session_id # sessions[j].session_id
                 /\ NetworkName(sessions[i].session_id) # NetworkName(sessions[j].session_id)
                 /\ SidecarName("db", sessions[i].session_id)
                        # SidecarName("db", sessions[j].session_id)

\* C15: an agent whose configuration has a usable primary provider and no usable
\* secondary provider is constructed, and its attempts after the first use the
\* primary provider as well.
C15_PrimaryOnlyAgentRuns ==
    (agent.state # "none" /\ agent.primary_usable /\ ~agent.secondary_usable)
        => /\ agent.state = "constructed"
           /\ ProviderName(UseSecondary(2)) = "primary"

NoProvider == primary_provider = "none" /\ secondary_provider = "none"

\* C13: with neither provider configured the run fails with the configuration error
\* at the head of its first attempt: no observer hook is called, no provider is
\* invoked, no verification runs, no attempt is recorded, no Outcome is produced,
\* and no second attempt is started.
C13_NoProviderFailsAtOnce ==
    /\ [](NoProvider =>
            /\ calls.hooks = 0
            /\ calls.provider = 0
            /\ calls.verify = 0
            /\ all_attempts = <<>>
            /\ final_result = None
            /\ attempt_num <= 1
            /\ pc \in {"idle", "provision", "diagnostics", "loop", "raised", "error_event"})
    /\ [][(NoProvider /\ pc = "loop") => pc' \in {"raised", "error_event"}]_vars

C13_Witness ==
    /\ NoProvider
    /\ pc = "error_event"
    /\ attempt_num = 1
    /\ calls.run = 1
    /\ events[Len(events)] = <<"error", "error">>

\* C14 as claimed: the candidate of attempt 1 is produced by the primary provider,
\* the candidate of an attempt i > 1 by the secondary when one is configured and by
\* the primary otherwise.
C14_FirstByPrimary ==
    fix_result # None =>
        fix_result.ai_agent = (IF attempt_num > 1 /\ secondary_provider # "none"
                               THEN "secondary" ELSE "primary")

\* C14 amended: the candidate of attempt 1 is produced by the primary provider
\* exactly when a primary is configured and its call succeeds; otherwise (no primary,
\* or the primary's call raised) a configured secondary produces it within the same
\* attempt.  The candidate of an attempt i > 1 is produced by the secondary when one
\* is configured and by the primary otherwise.
C14_FirstByPrimaryUnlessFailover ==
    [][(pc = "analyze" /\ pc' = "verify") =>
          LET who == fix_result'.ai_agent
              invoked == calls'.provider - calls.provider
          IN  IF attempt_num = 1
              THEN /\ who = "primary" <=> (primary_provider # "none" /\ invoked = 1)
                   /\ who = "secondary" => secondary_provider # "none"
              ELSE who = (IF secondary_provider # "none" THEN "secondary" ELSE "primary")]_vars

C14_Witness ==
    /\ pc = "verify"
    /\ attempt_num = 1
    /\ primary_provider # "none"
    /\ fix_result.ai_agent = "secondary"
    /\ calls.provider = 2

\* C16: when the loop has ended without a verified fix the Outcome has success =
\* false and no final fix, and carries a fallback response exactly when the fallback
\* handler is enabled; a success Outcome carries none.
C16_FallbackOnlyOnFailure ==
    pc = "done" =>
        IF Verified
        THEN final_result.success /\ ~final_result.fallback
        ELSE /\ ~final_result.success
             /\ final_result.final_fix = NoFix
             /\ final_result.fallback = fallback_enabled

C16_Witness ==
    /\ pc = "done"
    /\ ~Verified
    /\ fallback_enabled
    /\ final_result.fallback
    /\ Len(all_attempts) > 1

\* C17: when the verification of attempt k is the first to pass, the Outcome is a
\* success with total_attempts = k, final_fix is the candidate generated in attempt k,
\* record k is tagged PASSED and every earlier record FAILED or ERROR.
C17_PassAtAttemptK ==
    (pc = "done" /\ Verified) =>
        LET k == verification.attempt
        IN  /\ k <= max_attempts
            /\ final_result.success
            /\ final_result.total_attempts = k
            /\ Len(all_attempts) = k
            /\ final_result.final_fix = fix_result.fixed_code
            /\ final_result.final_fix = all_attempts[k].fixed_code
            /\ final_result.final_fix[2] = k
            /\ all_attempts[k].verification_result = "PASSED"
            /\ \A i \in 1..(k - 1) :
                  all_attempts[i].verification_result \in {"FAILED", "ERROR"}

C17_Witness ==
    /\ pc = "done"
    /\ Verified
    /\ verification.attempt = 3
    /\ final_result.total_attempts = 3
    /\ all_attempts[1].verification_result = "FAILED"
    /\ all_attempts[2].verification_result = "FAILED"

\* the events of type t yielded so far
EventsOfType(t) == { i \in 1..Len(events) : events[i][1] = t }

\* C18: an observed run that has ended, with a provider configured, has yielded
\* exactly one event of type "result", as its last event - also when provisioning
\* or the attempt loop raised.
C18_OneResultEventLast ==
    (Observed /\ TaskEnded /\ ~NoProvider) =>
        /\ Cardinality(EventsOfType("result")) = 1
        /\ events[Len(events)][1] = "result"

\* C19: once the observer of a session has disconnected or let the approval wait
\* time out, the session network and the sidecar containers are gone.
C19_ReleasedWhenObserverGone ==
    observer \in {"gone", "timed_out"} => (~engine.net /\ engine.sidecars = {})


\* ------------------------------------------------------------ C21
\* An engine build that failed during this task: client.api.build was invoked and
\* the call did not return the custom image tag
BuildFailed == \E i \in 1..Len(builds) : builds[i].built /\ ~builds[i].custom

\* C21: a candidate is never verified in a task whose image build failed: once the
\* build of the task has failed, no verification of the task returns verified = true
C21_NoVerifiedAfterFailedBuild == BuildFailed => ~Verified


\* ------------------------------------------------------------ C22
\* C22: one call at a time and a complete history: while the provider call or the
\* verification of attempt i+1 is in progress, the history holds exactly the
\* records of attempts 1..i in order, every verification started so far has
\* returned and is recorded, and the candidate under verification was produced
\* from that history
C22_HistoryBeforeNextAttempt ==
    pc \in {"analyze", "verify"} =>
        /\ Len(all_attempts) = attempt_num - 1
        /\ \A i \in 1..Len(all_attempts) : all_attempts[i].attempt_number = i
        /\ calls.verify = Cardinality({ i \in 1..Len(all_attempts) :
                                         all_attempts[i].verification_result # "ERROR" })
        /\ verification = None
        /\ (pc = "analyze" => fix_result = None)
        /\ (pc = "verify" => fix_result # None /\ fix_result.attempt_number = attempt_num)

\* the provider call of attempt 3 is in progress after a failed verification and
\* a provider error
C22_Witness ==
    /\ pc = "analyze"
    /\ attempt_num = 3
    /\ Len(all_attempts) = 2
    /\ all_attempts[1].verification_result = "FAILED"
    /\ all_attempts[2].verification_result = "ERROR"


\* ------------------------------------------------------------ C23
\* r is the first name of the catalog, in catalog order, that occurs in msg, or
\* no name when none occurs
FirstInCatalog(msg, r) ==
    IF \E k \in 1..Len(error_patterns) : Contains(error_patterns[k], msg)
    THEN \E k \in 1..Len(error_patterns) :
            /\ r = error_patterns[k]
            /\ Contains(error_patterns[k], msg)
            /\ \A j \in 1..(k - 1) : ~Contains(error_patterns[j], msg)
    ELSE r = NoType

\* C23: identify_error_type returns the first catalog entry, in catalog order,
\* whose name occurs in the message, and none otherwise; the guidance attached to
\* the Outcome of an exhausted task is that entry of the original error text
C23_CategoryOfOriginalError ==
    /\ \A i \in 1..Len(returned) :
          returned[i].call = "identify_error_type" =>
              FirstInCatalog(returned[i].args[1], returned[i].value)
    /\ (pc = "done" /\ ~final_result.success /\ final_result.fallback) =>
          \E r \in {NoType} \cup Range(error_patterns) :
              /\ FirstInCatalog(original_error, r)
              /\ final_result.fallback_response.error_type
                    = IF r = NoType THEN Unknown ELSE r
              /\ final_result.fallback_response.guidance
                    = IF r = NoType THEN Unknown ELSE r

\* an exhausted task whose error text names KeyError before IndexError and whose
\* attempt ended with another error: the guidance is that of IndexError
C23_Witness ==
    /\ pc = "done"
    /\ ~final_result.success
    /\ final_result.fallback
    /\ original_error = <<"Key", ErrorMark, ": Index", "Index", ErrorMark>>
    /\ final_result.fallback_response.guidance = <<"Index", ErrorMark>>
    /\ verification # None
    /\ Contains(<<"ZeroDivision", ErrorMark>>, verification.new_error)
    /\ \E i \in 1..Len(returned) : returned[i].call = "identify_error_type"

\* ------------------------------------------------------------ C24
\* C24: two generate_fallback_response calls with the same error message, code
\* snippet, bug id and attempt history return identical guidance
C24_SameArgumentsSameGuidance ==
    \A i, j \in 1..Len(returned) :
        (returned[i].call = returned[j].call /\ returned[i].args = returned[j].args)
            => returned[i].value = returned[j].value


\* ------------------------------------------------------------ C25
\* the third element of the command list the tests expect for an identifier
ExpectedScript(id) ==
    CASE id = <<"python">> -> "python3 -c \"import sys; exec(sys.stdin.read())\""
      [] id = <<"javascript">> -> "node -e \"$(cat)\""
      [] id = <<"nodejs">> -> "node -e \"$(cat)\""
      [] id = <<"go">> -> "cat > main.go && go run main.go"
      [] id = <<"go", "-test">> -> "cat > main_test.go && go test -v"
      [] id = <<"rust">> -> "cat > main.rs && rustc main.rs -o main && ./main"
      [] id = <<"cargo", "-test">> -> "cargo test"
      [] id = <<"npm", "-test">> -> "cat > test.js && npm test -- --test-file=test.js"
      [] id = <<"bash">> -> "$(cat)"
      [] OTHER -> "python3 -c \"import sys; exec(sys.stdin.read())\""

\* C25: the command of a run is the fixed template of the lower-cased language
\* identifier when that is one of the nine supported identifiers, and the python
\* template for any other identifier
C25_TemplateByLowerCasedLanguage ==
    \A i \in 1..Len(returned) :
        returned[i].call = "run_code.command" =>
            LET id == lower(returned[i].args[1])
                command == returned[i].value
            IN  /\ Len(command) = 3
                /\ command[1] = IF id = <<"bash">> THEN "/bin/bash" ELSE "/bin/sh"
                /\ command[2] = "-c"
                /\ command[3] = ExpectedScript(id)

\* a go-test run requested in capitals
C25_Witness ==
    \E i \in 1..Len(returned) :
        /\ returned[i].call = "run_code.command"
        /\ returned[i].args = << <<"GO", "-Test">> >>
        /\ returned[i].value[3] = "cat > main_test.go && go test -v"


\* ------------------------------------------------------------ C26
\* C26: with the engine available, a session that holds its network keeps it
\* (handle and engine network) across every step that does not end the task, so
\* that the run_code call of every attempt starts its containers on that network
C26_NetworkUntilTaskEnds ==
    [][ (~use_mock /\ network /\ pc' \notin {"done", "raised", "error_event"})
            => (network' /\ engine'.net) ]_vars

\* ------------------------------------------------------------ C27
\* C27: the diagnostics step leaves the network handle, the engine network and
\* the sidecar set of the session as they were
C27_DiagnosticsLeavesSession ==
    [][ pc = "diagnostics"
            => /\ network' = network
               /\ engine'.net = engine.net
               /\ sidecar_containers' = sidecar_containers
               /\ engine'.sidecars = engine.sidecars ]_vars


\* ------------------------------------------------------------ C29
\* the events the observer hooks returned, in stream order
HookLog == SelectSeq(events, LAMBDA e : Len(e) = 4)

\* C29: in the stream of an observed task the hook events of attempt i come in the
\* order on_attempt_start, on_fix_generated, on_verification_complete, then
\* on_attempt_failed when the attempt failed and another follows, all before
\* on_attempt_start of attempt i+1; an attempt whose provider call raised has no
\* on_fix_generated and no on_verification_complete event
C29_HooksInOrder ==
    LET log == HookLog
        hook(k) == log[k][3]
        attempt(k) == log[k][4]
    IN  /\ log # <<>> => (hook(1) = "on_attempt_start" /\ attempt(1) = 1)
        /\ \A k \in 1..(Len(log) - 1) :
              CASE hook(k) = "on_attempt_start" ->
                      /\ attempt(k + 1) = attempt(k)
                      /\ hook(k + 1) \in {"on_fix_generated", "on_attempt_failed"}
                [] hook(k) = "on_fix_generated" ->
                      /\ attempt(k + 1) = attempt(k)
                      /\ hook(k + 1) = "on_verification_complete"
                [] hook(k) = "on_verification_complete" ->
                      /\ attempt(k + 1) = attempt(k)
                      /\ hook(k + 1) = "on_attempt_failed"
                      /\ log[k][2] = "verification"
                [] hook(k) = "on_attempt_failed" ->
                      /\ attempt(k + 1) = attempt(k) + 1
                      /\ hook(k + 1) = "on_attempt_start"
        /\ \A i \in 1..Len(all_attempts) :
              /\ all_attempts[i].verification_result = "ERROR" =>
                    \A k \in 1..Len(log) :
                        attempt(k) = i => hook(k) \in {"on_attempt_start", "on_attempt_failed"}
              /\ (Observed /\ all_attempts[i].verification_result # "ERROR") =>
                    \E k \in 1..(Len(log) - 1) :
                        /\ attempt(k) = i /\ hook(k) = "on_fix_generated"
                        /\ hook(k + 1) = "on_verification_complete"
              /\ (Observed /\ all_attempts[i].verification_result # "PASSED"
                    /\ i < max_attempts) =>
                    \E k \in 1..Len(log) : attempt(k) = i /\ hook(k) = "on_attempt_failed"

\* attempt 1 failed verification, the provider call of attempt 2 raised, attempt 3
\* has started
C29_Witness ==
    /\ Observed
    /\ pc = "analyze"
    /\ attempt_num = 3
    /\ all_attempts[1].verification_result = "FAILED"
    /\ all_attempts[2].verification_result = "ERROR"
    /\ Len(HookLog) = 7

\* ------------------------------------------------------------ C30
\* C30: an on_attempt_failed event of attempt i is in the stream only when attempt
\* i is recorded as failed or errored and i < max_attempts, and at most once
C30_AttemptFailedHook ==
    LET log == HookLog
    IN  \A k \in 1..Len(log) :
            log[k][3] = "on_attempt_failed" =>
                /\ log[k][4] < max_attempts
                /\ log[k][4] <= Len(all_attempts)
                /\ all_attempts[log[k][4]].verification_result \in {"FAILED", "ERROR"}
                /\ \A j \in 1..Len(log) :
                      (log[j][3] = "on_attempt_failed" /\ log[j][4] = log[k][4]) => j = k

\* a task of two attempts that both failed verification: one on_attempt_failed
\* event, for attempt 1
C30_Witness ==
    /\ Observed
    /\ pc = "done"
    /\ max_attempts = 2
    /\ ~final_result.success
    /\ all_attempts[1].verification_result = "FAILED"
    /\ all_attempts[2].verification_result = "FAILED"
    /\ Cardinality({ k \in 1..Len(HookLog) : HookLog[k][3] = "on_attempt_failed" }) = 1


\* ------------------------------------------------------------ C28
\* C28: given the task of a finished silent run and the same answers of the
\* providers and of the engine, the observed run ends with the same Outcome: both
\* without an Outcome, or the same success flag, final fix and presence of
\* fallback guidance, and attempt records equal in number and tags
C28_SameOutcomeOnBothPaths ==
    (Observed /\ returned # <<>> /\ TaskEnded) =>
        LET silent == returned[1].value
        IN  /\ (final_result = None) = (silent.outcome = None)
            /\ final_result # None =>
                  /\ final_result.success = silent.outcome.success
                  /\ final_result.final_fix = silent.outcome.final_fix
                  /\ final_result.fallback = silent.outcome.fallback
            /\ Len(all_attempts) = Len(silent.all_attempts)
            /\ \A i \in 1..Len(all_attempts) :
                  all_attempts[i].verification_result
                      = silent.all_attempts[i].verification_result

\* both runs pass at attempt 2 after a failed attempt 1, the observed one on a
\* session that had its network when diagnostics ran
C28_Witness ==
    /\ Observed
    /\ returned # <<>>
    /\ pc = "done"
    /\ final_result.success
    /\ Len(all_attempts) = 2
    /\ all_attempts[1].verification_result = "FAILED"
    /\ returned[1].value.outcome.success


C32_HookErrorKeepsHistory ==
    /\ \A i, j \in 1..Len(all_attempts) :
          all_attempts[i].attempt_number = all_attempts[j].attempt_number => i = j
    /\ \A i \in 1..Len(all_attempts) :
          all_attempts[i].verification_result = "PASSED" =>
              attempt_num = all_attempts[i].attempt_number


\* ------------------------------------------------------------ C33
\* C33: a task that has ended with an Outcome performed at least 1 and at most 5
\* attempts, whatever max_attempts the caller asked for
C33_OneToFiveAttempts ==
    pc = "done" => (Len(all_attempts) >= 1 /\ Len(all_attempts) <= MaxAttemptsCap)

\* C34: in every Outcome produced by the attempt loop, total_attempts equals the
\* number of records in all_attempts, and that number is at most max_attempts.
C34_TotalIsHistoryLength ==
    pc = "done" => /\ final_result.total_attempts = Len(all_attempts)
                   /\ Len(all_attempts) <= max_attempts

\* the error text a record carries
RecordErrorText(attempt) ==
    IF attempt.verification_result = "ERROR" THEN attempt.error ELSE attempt.new_error

\* C35: the attempt summary has one entry per record of the history, in history
\* order, each with the record's attempt number, its PASSED/FAILED/ERROR tag and the
\* record's error text cut to at most 200 characters, also for ERROR records,
\* whose error text is the text of the failure.
C35_SummaryOfEveryRecord ==
    \A k \in 1..Len(returned) :
        returned[k].call = "attempt_summary" =>
            LET history == returned[k].args[1]
                summary == returned[k].value
            IN  /\ Len(summary) = Len(history)
                /\ \A i \in 1..Len(history) :
                      /\ summary[i].attempt_number = history[i].attempt_number
                      /\ summary[i].result = history[i].verification_result
                      /\ RecordErrorText(history[i]) # NoText =>
                            /\ summary[i].error # None
                            /\ Len(summary[i].error) <= ErrorLimit
                            /\ summary[i].error
                                  = SubSeq(RecordErrorText(history[i]), 1, Len(summary[i].error))
                            /\ Len(summary[i].error)
                                  = Min(Len(RecordErrorText(history[i])), ErrorLimit)

\* C36: a sidecar that fails its health check, is not ready within the bounded
\* wait, or fails to start does not abort verification: every declared sidecar is
\* still started unless its own start fails, and the candidate code is still run
\* and given a verdict; each readiness wait ends after at most HealthTimeout polls,
\* ready on 'healthy' or an absent status, not ready on 'unhealthy' or on timeout.
C36_UnreadySidecarDoesNotAbort ==
    \A k \in 1..Len(returned) :
        (returned[k].call = "start_sidecars" /\ ~use_mock) =>
            LET sc == returned[k].args[1]
                health == returned[k].args[2]
                log == returned[k].value
            IN  /\ Len(log) = manifest.services
                /\ \A i \in 1..Len(log) :
                      /\ log[i].service = i
                      /\ log[i].started = (sc[i] # "start_fails")
                      /\ log[i].started = (i \in Range(returned[k].started))
                      /\ log[i].polls <= HealthTimeout
                      /\ log[i].waited =>
                            (log[i].ready = (/\ health[i].starting < HealthTimeout
                                             /\ health[i].then \in {"healthy", "none"}))
                /\ verification # None
                /\ verification.ran = (verification.exec.kind # "run_raises")
                /\ verification.verified \in BOOLEAN

C36_Witness ==
    /\ pc = "sidecars"
    /\ manifest.services = 2
    /\ Len(returned) = 1
    /\ returned[1].call = "start_sidecars"
    /\ returned[1].args[2][1] = [starting |-> HealthTimeout, then |-> "healthy"]
    /\ returned[1].value[1].started
    /\ ~returned[1].value[1].ready
    /\ returned[1].value[2].started
    /\ returned[1].value[2].ready
    /\ verification # None
    /\ verification.ran
    /\ verification.verified

\* the session row's is_approved as last written (0 pending, 1 approved, -1 rejected)
ApprovalState ==
    LET marks == SelectSeq(returned, LAMBDA e : e.call = "update_session_approval")
    IN  IF marks = <<>> THEN 0 ELSE marks[Len(marks)].args[1]

WaitEnded == \E k \in 1..Len(returned) : returned[k].call = "receive_json"

FixApplied == \E k \in 1..Len(returned) : returned[k].call = "apply_fix_to_repo"

SharedTag == ImageTag(generate_dynamic_dockerfile(manifest, DefaultImage))

\* C38: of the tasks that concurrently build an image for the same build-script
\* hash, in any interleaving of their lookup and build steps, each one the engine
\* does not fail ends with the tag of that hash as its image and runs its
\* execution container from it, and the cache has one entry for the hash, so that
\* no task fails because of the race.
C38_ConcurrentBuildsSameTag ==
    pc = "builders" =>
        /\ \A i \in 1..Len(sessions) :
              (sessions[i].at \in {"built", "ran"} /\ ~sessions[i].engine_failed) =>
                  /\ sessions[i].image = SharedTag
                  /\ sessions[i].ret = SharedTag
                  /\ sessions[i].at = "ran" => sessions[i].ran_on = SharedTag
                  /\ Cardinality({ t \in engine.images : t = SharedTag }) = 1
        /\ \A i \in 1..Len(sessions) :
              sessions[i].engine_failed \/ sessions[i].at \in {"lookup", "build", "built", "ran"}

C38_Witness ==
    /\ pc = "builders"
    /\ Len(sessions) >= 2
    /\ \A i \in 1..2 : /\ sessions[i].at = "ran"
                       /\ sessions[i].built
                       /\ sessions[i].ran_on = SharedTag

\* the code a response holds between its fences: every line from an opening fence
\* to the next fence, with the inline code of the opening-fence line and the text
\* before the closing fence
RECURSIVE FencedCode(_, _, _)
FencedCode(lines, k, inside) ==
    IF k > Len(lines) THEN <<>>
    ELSE IF lines[k].fence
         THEN (IF ~inside
               THEN (IF FenceContent(lines[k].after) # <<>>
                     THEN << FenceContent(lines[k].after) >> ELSE <<>>)
               ELSE (IF lines[k].text # <<>> THEN << lines[k].text >> ELSE <<>>))
              \o FencedCode(lines, k + 1, ~inside)
    ELSE (IF inside THEN << lines[k].text >> ELSE <<>>) \o FencedCode(lines, k + 1, inside)

\* C39: _parse_ai_response puts every line between an opening code fence and its
\* closing fence into fixed_code, in order, with the inline code after the
\* language tag of the opening-fence line and the inline code before the closing
\* fence, whatever words the code lines contain; a response without fenced code
\* gives the original code.
C39_FencedLinesAreTheFix ==
    \A k \in 1..Len(returned) :
        returned[k].call = "_parse_ai_response" =>
            LET code == FencedCode(returned[k].args[1], 1, FALSE)
            IN  returned[k].value.fixed_code
                    = (IF code = <<>> THEN returned[k].args[2] ELSE code)

\* C40: sanitize_language returns for any input (None, empty, mixed case, text with
\* injected characters) one of the nine supported identifiers, each of which has
\* its own entry in the command table of run_code; a supported identifier is
\* returned unchanged, and applying the function twice gives what applying it
\* once gives.
C40_AlwaysSupportedAndIdempotent ==
    /\ Cardinality(SUPPORTED_LANGUAGES) = 9
    /\ { Spell(k) : k \in DOMAIN commands } = SUPPORTED_LANGUAGES
    /\ Cardinality(DOMAIN commands) = 9
    /\ \A k \in 1..Len(returned) :
          returned[k].call = "sanitize_language" =>
              /\ returned[k].value \in SUPPORTED_LANGUAGES
              /\ \E key \in DOMAIN commands : Spell(key) = returned[k].value
              /\ returned[k].args[1] \in SUPPORTED_LANGUAGES =>
                    returned[k].value = returned[k].args[1]
              /\ returned[k].again = returned[k].value

C40_Witness ==
    /\ Len(returned) = 1
    /\ returned[1].call = "sanitize_language"
    /\ returned[1].args[1] = <<"Java", "Script", "<">>
    /\ returned[1].value = <<"java", "script">>
    /\ returned[1].again = <<"java", "script">>

\* C10: of two consecutive build_image calls of one project with an unchanged
\* manifest that both return a built or cached image, the second returns the tag
\* of the first and does not invoke an engine build.
C10_SecondBuildIsCacheHit ==
    \A i \in 1..(Len(builds) - 1) :
        (builds[i].custom /\ builds[i + 1].custom)
            => (builds[i + 1].ret = builds[i].ret /\ ~builds[i + 1].built)
====
